---- MODULE Spec2Model ----
(***************************************************************************)
(* Table segmentation and field mapping of the report converter:           *)
(*   pdf-to-excel.py     : splitting the merged table into three sections  *)
(*   excel-to-json.py    : structured row mappers and parse_value          *)
(*   extract_tables.py   : text token mappers and parse_number             *)
(* Text is modelled character by character: a Python str is a sequence of  *)
(* one-character strings, so strip/replace/upper/split/in are computed.    *)
(***************************************************************************)
EXTENDS Integers, Sequences, FiniteSets, TLC

VARIABLES
    main_table,         \* pdf-to-excel.py: rows of tables[0]
    producto_start,     \* pdf-to-excel.py: index found by the scan (or None)
    continuacion_start, \* pdf-to-excel.py: index found by the scan (or None)
    analisis_data,      \* pdf-to-excel.py: rows of the ANALISIS sheet
    producto_data,      \* pdf-to-excel.py: rows of the PRODUCTO_TERMINADO sheet
    continuacion_data,  \* pdf-to-excel.py: rows of the CONTINUACION sheet
    sheet_names,        \* pdf-to-excel.py: sheets written, in order
    seg_pc,             \* "idle" | "ready" | "done"
    val,                \* excel-to-json.py: argument of parse_value
    val_result,         \* excel-to-json.py: value returned by parse_value
    val_pc,             \* "idle" | "ready" | "done"
    source,             \* "idle" | "excel" (excel-to-json.py) | "image" (extract_tables.py)
    table_kind,         \* the sheet, or the region, being mapped
    df,                 \* excel-to-json.py: the sheet read as a grid
    text,               \* extract_tables.py: the text recognised in the region
    hoy_indicators,     \* Indicadores of "ANALISIS - HOY"
    hasta_indicators,   \* Indicadores of "ANALISIS - HASTA"
    producto_indicators,     \* Indicadores of "PRODUCTO TERMINADO (AZUCAR)"
    continuacion_indicators, \* Indicadores of the CONTINUACION group
    map_pc,             \* "idle" | "ready" | "done" | "raised"
    driver,             \* "idle" | "excel" (excel_to_json) | "image" (main)
    workbook,           \* excel-to-json.py: the sheets of the workbook, by name
    image_ok,           \* extract_tables.py: cv2.imread returned an image
    page,               \* extract_tables.py: the page the image shows
    contours,           \* extract_tables.py: the yellow contours of the image
    results,            \* the groups built, in order
    warned,             \* extract_tables.py: the warning was printed
    exit_code,          \* exit status of the run
    drv_pc,             \* "idle" | "ready" | "done" | "raised"
    image_shape,        \* extract_tables.py: height and width of the image
    header_region,      \* extract_tables.py: bounding box of a yellow header
    expansion,          \* extract_tables.py: argument of extract_table_area
    table_img           \* extract_tables.py: the box cut by extract_table_area

seg_vars == <<main_table, producto_start, continuacion_start, analisis_data,
              producto_data, continuacion_data, sheet_names, seg_pc>>

val_vars == <<val, val_result, val_pc>>

map_vars == <<source, table_kind, df, text, hoy_indicators, hasta_indicators,
              producto_indicators, continuacion_indicators, map_pc>>

crop_vars == <<image_shape, header_region, expansion, table_img>>

drv_vars == <<driver, workbook, image_ok, page, contours, results, warned,
              exit_code, drv_pc, crop_vars>>

vars == <<seg_vars, val_vars, map_vars, drv_vars>>

-----------------------------------------------------------------------------
(* Python values.  Every value has the same record shape so that any two   *)
(* can be compared: None, str (s), int (n), float (n / 10^e).              *)

PyNone == [kind |-> "None", s |-> <<>>, n |-> 0, e |-> 0]

PyStr(t) == [kind |-> "str", s |-> t, n |-> 0, e |-> 0]

PyInt(k) == [kind |-> "int", s |-> <<>>, n |-> k, e |-> 0]

PyFloat(m, x) == [kind |-> "float", s |-> <<>>, n |-> m, e |-> x]

\* Index value of a Python variable holding None instead of a row index.
NoneIdx == -1

\* Python truthiness of an index variable: None and 0 are both falsy.
Truthy(idx) == idx # NoneIdx /\ idx # 0

\* Variables of a component that is not running.
SegIdle ==
    /\ main_table = <<>>
    /\ producto_start = NoneIdx
    /\ continuacion_start = NoneIdx
    /\ analisis_data = <<>>
    /\ producto_data = <<>>
    /\ continuacion_data = <<>>
    /\ sheet_names = <<>>
    /\ seg_pc = "idle"

ValIdle ==
    /\ val = PyNone
    /\ val_result = PyNone
    /\ val_pc = "idle"

MapIdle ==
    /\ source = "idle"
    /\ table_kind = "ANALISIS"
    /\ df = <<>>
    /\ text = <<>>
    /\ hoy_indicators = <<>>
    /\ hasta_indicators = <<>>
    /\ producto_indicators = <<>>
    /\ continuacion_indicators = <<>>
    /\ map_pc = "idle"

\* A box of the image: left column, top row, width and height.
Box(x, y, w, h) == [x |-> x, y |-> y, w |-> w, h |-> h]

CropIdle ==
    /\ image_shape = [height |-> 0, width |-> 0]
    /\ header_region = Box(0, 0, 0, 0)
    /\ expansion = 0
    /\ table_img = Box(0, 0, 0, 0)

DrvIdle ==
    /\ CropIdle
    /\ driver = "idle"
    /\ workbook = <<>>
    /\ image_ok = FALSE
    /\ page = 0
    /\ contours = <<>>
    /\ results = <<>>
    /\ warned = FALSE
    /\ exit_code = 0
    /\ drv_pc = "idle"

\* Python truthiness of a cell: None and "" are falsy.
CellTruthy(c) == c.kind = "str" /\ c.s # <<>>

-----------------------------------------------------------------------------
(* Python str operations on character sequences.                           *)

LowerCase == <<"a","b","c","d","e","f","g","h","i","j","k","l","m",
               "n","o","p","q","r","s","t","u","v","w","x","y","z">>

UpperCase == <<"A","B","C","D","E","F","G","H","I","J","K","L","M",
               "N","O","P","Q","R","S","T","U","V","W","X","Y","Z">>

UpperChar(c) ==
    IF \E i \in 1..Len(LowerCase) : LowerCase[i] = c
    THEN UpperCase[CHOOSE i \in 1..Len(LowerCase) : LowerCase[i] = c]
    ELSE c

LowerChar(c) ==
    IF \E i \in 1..Len(UpperCase) : UpperCase[i] = c
    THEN LowerCase[CHOOSE i \in 1..Len(UpperCase) : UpperCase[i] = c]
    ELSE c

\* str.upper()
Upper(t) == [i \in 1..Len(t) |-> UpperChar(t[i])]

\* str.lower()
Lower(t) == [i \in 1..Len(t) |-> LowerChar(t[i])]

\* str.replace(c, "") for a one-character c
RemoveChar(t, c) == SelectSeq(t, LAMBDA x : x # c)

\* str.replace(c, d) for one-character c and d
ReplaceChar(t, c, d) == [i \in 1..Len(t) |-> IF t[i] = c THEN d ELSE t[i]]

\* sub in t
Contains(t, sub) ==
    \E i \in 0..(Len(t) - Len(sub)) : SubSeq(t, i + 1, i + Len(sub)) = sub

\* t.startswith(sub)
StartsWith(t, sub) == Len(sub) <= Len(t) /\ SubSeq(t, 1, Len(sub)) = sub

WhiteSpace == {" ", "\t", "\n"}

RECURSIVE LStrip(_)
LStrip(t) ==
    IF t # <<>> /\ Head(t) \in WhiteSpace THEN LStrip(Tail(t)) ELSE t

RECURSIVE RStrip(_)
RStrip(t) ==
    IF t # <<>> /\ t[Len(t)] \in WhiteSpace
    THEN RStrip(SubSeq(t, 1, Len(t) - 1)) ELSE t

\* str.strip()
Strip(t) == RStrip(LStrip(t))

\* sep.join(parts)
RECURSIVE Join(_, _)
Join(parts, sep) ==
    IF parts = <<>> THEN <<>>
    ELSE IF Len(parts) = 1 THEN parts[1]
    ELSE parts[1] \o sep \o Join(Tail(parts), sep)

\* str.split(c) for a one-character separator: empty pieces are kept; cur is
\* the start of the first piece
SplitOn(t, c, cur) ==
    LET u == cur \o t
        seps == {i \in 1..Len(u) : u[i] = c}
        n == Cardinality(seps)
        sep(k) == CHOOSE i \in seps : Cardinality({j \in seps : j < i}) = k - 1
    IN [k \in 1..(n + 1) |->
            SubSeq(u, IF k = 1 THEN 1 ELSE sep(k - 1) + 1,
                      IF k = n + 1 THEN Len(u) ELSE sep(k) - 1)]

\* str.split(): runs of whitespace separate, no empty pieces; cur is the
\* start of the first piece
SplitWs(t, cur) ==
    SelectSeq(SplitOn([i \in 1..Len(t) |-> IF t[i] \in WhiteSpace THEN " " ELSE t[i]],
                      " ", cur),
              LAMBDA piece : piece # <<>>)

\* seq[lo:hi] with Python's zero-based, half-open indices
Slice(seq, lo, hi) == SubSeq(seq, lo + 1, hi)

\* the elements of a sequence that satisfy a test
RECURSIVE SelectCells(_)
SelectCells(row) ==
    IF row = <<>> THEN <<>>
    ELSE IF CellTruthy(Head(row)) THEN <<Head(row).s>> \o SelectCells(Tail(row))
    ELSE SelectCells(Tail(row))

-----------------------------------------------------------------------------
(* Keywords and sample cell texts.                                          *)

kwPRODUCTO == <<"P","R","O","D","U","C","T","O">>

kwTERMINADO == <<"T","E","R","M","I","N","A","D","O">>

kwDESCRIPCION == <<"D","E","S","C","R","I","P","C","I","O","N">>

kwQuintales == <<"Q","u","i","n","t","a","l","e","s">>

txtJugo == <<"J","u","g","o">>

txtNum == <<"8","5",".","2">>

txtTitulo == <<"*","*"," ","P","r","o","d","u","c","t","o"," ",
               "T","e","r","m","i"," ","n","a","d","o"," ","*","*">>

txtDescripcion == <<"D","e","s","c","r","i","p","c","i","o","n">>

txtBrix == <<"B","R","I","X">>

-----------------------------------------------------------------------------
(* pdf-to-excel.py: the section segmenter of extract_pdf_to_excel.          *)

\* Rows of the merged table the scan has to tell apart: a data row, a title
\* row of the finished-product table (mixed case, asterisks, inner spaces), a
\* DESCRIPCION header with Quintales, one without, and a row with an empty
\* leading cell that carries Quintales.
SegRows ==
    << <<PyStr(txtJugo), PyStr(txtNum)>>,
       <<PyStr(txtTitulo), PyNone>>,
       <<PyStr(txtDescripcion), PyNone, PyStr(kwQuintales)>>,
       <<PyStr(kwDESCRIPCION), PyStr(txtBrix)>>,
       <<PyNone, PyStr(kwQuintales)>> >>

SegRowSet == {SegRows[k] : k \in 1..Len(SegRows)}

\* Largest number of rows of a table.
MaxRows == 33

\* The continuation header is only accepted at an index above this one.
ContinuacionMinRow == 30

\* Row indices at which a table may hold any row of SegRows; every other
\* row is a data row.
MarkerSlots == {0, 1, ContinuacionMinRow, ContinuacionMinRow + 1,
                ContinuacionMinRow + 2}

SegTable(len, f) ==
    [i \in 1..len |-> IF (i - 1) \in DOMAIN f THEN SegRows[f[i - 1]]
                      ELSE SegRows[1]]

\* first_col = str(row[0]) if row[0] else ""
FirstCol(row) == IF CellTruthy(row[1]) THEN row[1].s ELSE <<>>

\* first_col.replace("*", "").replace(" ", "").upper()
FirstColClean(row) == Upper(RemoveChar(RemoveChar(FirstCol(row), "*"), " "))

\* "PRODUCTO" in first_col_clean and "TERMINADO" in first_col_clean
IsProductoText(row) ==
    LET clean == FirstColClean(row)
    IN Contains(clean, kwPRODUCTO) /\ Contains(clean, kwTERMINADO)

\* " ".join([str(c) for c in row if c])
RowText(row) == Join(SelectCells(row), <<" ">>)

\* "DESCRIPCION" in first_col.upper() and "Quintales" in the joined row
IsContinuacionText(row) ==
    /\ Contains(Upper(FirstCol(row)), kwDESCRIPCION)
    /\ Contains(RowText(row), kwQuintales)

\* The two tests evaluated once for each row of SegRows.
ProductoRows == {r \in SegRowSet : IsProductoText(r)}

ContinuacionRows == {r \in SegRowSet : IsContinuacionText(r)}

IsProductoRow(row) ==
    IF row \in SegRowSet THEN row \in ProductoRows ELSE IsProductoText(row)

IsContinuacionRow(row, i) ==
    /\ i > ContinuacionMinRow
    /\ IF row \in SegRowSet THEN row \in ContinuacionRows
       ELSE IsContinuacionText(row)

\* The scan loop from row i on (zero-based), with the producto_start found
\* so far; it stops at the first continuation header.
RECURSIVE ScanRows(_, _, _)
ScanRows(table, i, ps) ==
    IF i >= Len(table) THEN [producto_start |-> ps, continuacion_start |-> NoneIdx]
    ELSE IF IsProductoRow(table[i + 1]) THEN ScanRows(table, i + 1, i)
    ELSE IF IsContinuacionRow(table[i + 1], i)
         THEN [producto_start |-> ps, continuacion_start |-> i]
    ELSE ScanRows(table, i + 1, ps)

\* SplitSections with the marker row dropped from the second section.
SplitSections_DropMarker(table, ps, cs) ==
    IF Truthy(ps) /\ Truthy(cs)
    THEN [analisis |-> Slice(table, 0, ps),
          producto |-> Slice(table, ps + 1, cs),
          continuacion |-> Slice(table, cs, Len(table))]
    ELSE IF Truthy(ps)
    THEN [analisis |-> Slice(table, 0, ps),
          producto |-> Slice(table, ps + 1, Len(table)),
          continuacion |-> <<>>]
    ELSE [analisis |-> table, producto |-> <<>>, continuacion |-> <<>>]

\* SplitSections testing "is not None" instead of truthiness.
SplitSections_NotNone(table, ps, cs) ==
    IF ps # NoneIdx /\ cs # NoneIdx
    THEN [analisis |-> Slice(table, 0, ps),
          producto |-> Slice(table, ps, cs),
          continuacion |-> Slice(table, cs, Len(table))]
    ELSE IF ps # NoneIdx
    THEN [analisis |-> Slice(table, 0, ps),
          producto |-> Slice(table, ps, Len(table)),
          continuacion |-> <<>>]
    ELSE [analisis |-> table, producto |-> <<>>, continuacion |-> <<>>]

\* SplitSections with a branch for a continuation found without a title.
SplitSections_ContOnly(table, ps, cs) ==
    IF Truthy(ps) /\ Truthy(cs)
    THEN [analisis |-> Slice(table, 0, ps),
          producto |-> Slice(table, ps, cs),
          continuacion |-> Slice(table, cs, Len(table))]
    ELSE IF Truthy(ps)
    THEN [analisis |-> Slice(table, 0, ps),
          producto |-> Slice(table, ps, Len(table)),
          continuacion |-> <<>>]
    ELSE IF Truthy(cs)
    THEN [analisis |-> Slice(table, 0, cs),
          producto |-> <<>>,
          continuacion |-> Slice(table, cs, Len(table))]
    ELSE [analisis |-> table, producto |-> <<>>, continuacion |-> <<>>]

\* The three slices taken from the table for the boundaries found.
SplitSections(table, ps, cs) ==
    IF Truthy(ps) /\ Truthy(cs)
    THEN [analisis |-> Slice(table, 0, ps),
          producto |-> Slice(table, ps, cs),
          continuacion |-> Slice(table, cs, Len(table))]
    ELSE IF Truthy(ps)
    THEN [analisis |-> Slice(table, 0, ps),
          producto |-> Slice(table, ps, Len(table)),
          continuacion |-> <<>>]
    ELSE [analisis |-> table, producto |-> <<>>, continuacion |-> <<>>]

\* Sheets written: Raw_Data always, then each non-empty section.
SheetsWritten(sec) ==
    <<"Raw_Data">>
        \o (IF sec.analisis # <<>> THEN <<"ANALISIS">> ELSE <<>>)
        \o (IF sec.producto # <<>> THEN <<"PRODUCTO_TERMINADO">> ELSE <<>>)
        \o (IF sec.continuacion # <<>> THEN <<"CONTINUACION">> ELSE <<>>)

InitSegment ==
    /\ \E len \in 0..MaxRows :
         \E f \in [MarkerSlots \cap (0..(len - 1)) -> 1..Len(SegRows)] :
            main_table = SegTable(len, f)
    /\ producto_start = NoneIdx
    /\ continuacion_start = NoneIdx
    /\ analisis_data = <<>>
    /\ producto_data = <<>>
    /\ continuacion_data = <<>>
    /\ sheet_names = <<>>
    /\ seg_pc = "ready"
    /\ ValIdle
    /\ MapIdle
    /\ DrvIdle

Segment ==
    /\ seg_pc = "ready"
    /\ LET found == ScanRows(main_table, 0, NoneIdx)
           sec == SplitSections(main_table, found.producto_start,
                                found.continuacion_start)
       IN /\ producto_start' = found.producto_start
          /\ continuacion_start' = found.continuacion_start
          /\ analisis_data' = sec.analisis
          /\ producto_data' = sec.producto
          /\ continuacion_data' = sec.continuacion
          /\ sheet_names' = SheetsWritten(sec)
    /\ seg_pc' = "done"
    /\ UNCHANGED <<main_table, val_vars, map_vars, drv_vars>>

NextSegment == Segment

SpecSegment == InitSegment /\ [][NextSegment]_vars

-----------------------------------------------------------------------------
(* Python int() and float() on a character sequence.                        *)

Digits == <<"0","1","2","3","4","5","6","7","8","9">>

IsDigit(c) == \E i \in 1..Len(Digits) : Digits[i] = c

DigitVal(c) == (CHOOSE i \in 1..Len(Digits) : Digits[i] = c) - 1

AllDigits(t) == \A i \in 1..Len(t) : IsDigit(t[i])

\* value of a run of decimal digits
RECURSIVE DigitsVal(_)
DigitsVal(t) ==
    IF t = <<>> THEN 0
    ELSE 10 * DigitsVal(SubSeq(t, 1, Len(t) - 1)) + DigitVal(t[Len(t)])

HasSign(t) == t # <<>> /\ Head(t) \in {"-", "+"}

Unsigned(t) == IF HasSign(t) THEN Tail(t) ELSE t

SignOf(t) == IF t # <<>> /\ Head(t) = "-" THEN -1 ELSE 1

\* int(t) succeeds: surrounding whitespace, an optional sign, digits
IntOk(t) ==
    LET u == Unsigned(Strip(t)) IN u # <<>> /\ AllDigits(u)

IntVal(t) == SignOf(Strip(t)) * DigitsVal(Unsigned(Strip(t)))

\* position of the first "." of t, 0 when there is none
PointAt(t) ==
    IF \E i \in 1..Len(t) : t[i] = "."
    THEN CHOOSE i \in 1..Len(t) : t[i] = "." /\ \A j \in 1..(i - 1) : t[j] # "."
    ELSE 0

\* float(t) succeeds for a text with a ".": digits on at least one side of
\* exactly one point (texts with an exponent, inf or nan are not modelled)
FloatOk(t) ==
    LET u == Unsigned(Strip(t))
        p == PointAt(u)
        ip == SubSeq(u, 1, p - 1)
        fp == SubSeq(u, p + 1, Len(u))
    IN /\ p > 0
       /\ AllDigits(ip)
       /\ AllDigits(fp)
       /\ ip \o fp # <<>>

\* m / 10^x with trailing zeros of the fraction removed
RECURSIVE Normal(_, _)
Normal(m, x) ==
    IF x > 0 /\ m % 10 = 0 THEN Normal(m \div 10, x - 1) ELSE PyFloat(m, x)

FloatVal(t) ==
    LET u == Unsigned(Strip(t))
        p == PointAt(u)
        ip == SubSeq(u, 1, p - 1)
        fp == SubSeq(u, p + 1, Len(u))
        v == Normal(DigitsVal(ip \o fp), Len(fp))
    IN PyFloat(SignOf(Strip(t)) * v.n, v.e)

-----------------------------------------------------------------------------
(* excel-to-json.py: parse_value, the value normalizer.                     *)

kwNan == <<"n","a","n">>

\* parse_value comparing the text with "nan" without lowering it.
parse_value_CaseSensitiveNan(v) ==
    IF v.kind = "None" THEN PyNone
    ELSE LET val_str == Strip(v.s)
         IN IF val_str = <<>> \/ val_str = kwNan THEN PyNone
            ELSE LET nocomma == RemoveChar(val_str, ",")
                 IN IF Contains(nocomma, <<".">>)
                    THEN (IF FloatOk(nocomma) THEN FloatVal(nocomma)
                          ELSE IF nocomma # <<>> THEN PyStr(nocomma) ELSE PyNone)
                    ELSE (IF IntOk(nocomma) THEN PyInt(IntVal(nocomma))
                          ELSE IF nocomma # <<>> THEN PyStr(nocomma) ELSE PyNone)

\* parse_value without the removal of the commas.
parse_value_KeepCommas(v) ==
    IF v.kind = "None" THEN PyNone
    ELSE LET val_str == Strip(v.s)
         IN IF val_str = <<>> \/ Lower(val_str) = kwNan THEN PyNone
            ELSE IF Contains(val_str, <<".">>)
                 THEN (IF FloatOk(val_str) THEN FloatVal(val_str) ELSE PyStr(val_str))
                 ELSE (IF IntOk(val_str) THEN PyInt(IntVal(val_str)) ELSE PyStr(val_str))

\* parse_value with pd.isna(val) for None; a text cell is its own str()
parse_value(v) ==
    IF v.kind = "None" THEN PyNone
    ELSE LET val_str == Strip(v.s)
         IN IF val_str = <<>> \/ Lower(val_str) = kwNan THEN PyNone
            ELSE LET nocomma == RemoveChar(val_str, ",")
                 IN IF Contains(nocomma, <<".">>)
                    THEN (IF FloatOk(nocomma) THEN FloatVal(nocomma)
                          ELSE IF nocomma # <<>> THEN PyStr(nocomma) ELSE PyNone)
                    ELSE (IF IntOk(nocomma) THEN PyInt(IntVal(nocomma))
                          ELSE IF nocomma # <<>> THEN PyStr(nocomma) ELSE PyNone)

\* Characters of the cell texts given to parse_value.
ValChars == {"1", "2", ".", ",", " ", "-", "a"}

\* Longest cell text given to parse_value.
MaxValLen == 4

\* Blanks put around a cell text.
Pads == { <<>>, <<" ">>, <<"\t", " ">> }

\* The text nan in several letter cases.
NanTexts == { <<"n","a","n">>, <<"N","a","N">>, <<"N","A","N">>, <<"n","A","n">> }

\* Integers whose decimal text is given to parse_value.
IntSamples == {0, 7, 42, 999, 1000, 2000, 12345, 100000, 1234567,
               -1, -999, -1000, -2000, -1234567}

\* Decimal fractions given to parse_value: sign * m / 10^e.
DecimalSamples ==
    { [sign |-> 1, m |-> 5, e |-> 1], [sign |-> 1, m |-> 852, e |-> 1],
      [sign |-> 1, m |-> 123450, e |-> 2], [sign |-> 1, m |-> 2000000, e |-> 3],
      [sign |-> 1, m |-> 1234567, e |-> 1], [sign |-> 1, m |-> 100005, e |-> 2],
      [sign |-> -1, m |-> 123450, e |-> 2], [sign |-> -1, m |-> 75, e |-> 2] }

\* the decimal digits of k >= 0
RECURSIVE DigitsOf(_)
DigitsOf(k) ==
    IF k < 10 THEN <<Digits[k + 1]>>
    ELSE DigitsOf(k \div 10) \o <<Digits[(k % 10) + 1]>>

\* the decimal digits of k >= 0 on exactly w places
RECURSIVE DigitsOn(_, _)
DigitsOn(k, w) ==
    IF w = 0 THEN <<>> ELSE DigitsOn(k \div 10, w - 1) \o <<Digits[(k % 10) + 1]>>

\* k >= 0 written with a comma between groups of three digits
RECURSIVE Grouped(_)
Grouped(k) ==
    IF k < 1000 THEN DigitsOf(k)
    ELSE Grouped(k \div 1000) \o <<",">> \o DigitsOn(k % 1000, 3)

\* an integer written with thousands separators, as format(n, ",") writes it
FormatInt(n) == IF n < 0 THEN <<"-">> \o Grouped(-n) ELSE Grouped(n)

RECURSIVE Pow10(_)
Pow10(e) == IF e = 0 THEN 1 ELSE 10 * Pow10(e - 1)

\* a decimal fraction written with thousands separators and e decimals
FormatDecimal(d) ==
    (IF d.sign < 0 THEN <<"-">> ELSE <<>>)
        \o Grouped(d.m \div Pow10(d.e)) \o <<".">> \o DigitsOn(d.m % Pow10(d.e), d.e)

InitValue ==
    /\ \/ val = PyNone
       \/ \E len \in 0..MaxValLen : \E t \in [1..len -> ValChars] : val = PyStr(t)
       \/ \E t \in NanTexts : \E pad \in Pads : val = PyStr(pad \o t \o pad)
       \/ \E n \in IntSamples : \E pad \in Pads :
                val = PyStr(pad \o FormatInt(n) \o pad)
       \/ \E d \in DecimalSamples : \E pad \in Pads :
                val = PyStr(pad \o FormatDecimal(d) \o pad)
    /\ val_result = PyNone
    /\ val_pc = "ready"
    /\ SegIdle
    /\ MapIdle
    /\ DrvIdle

ParseValue ==
    /\ val_pc = "ready"
    /\ val_result' = parse_value(val)
    /\ val_pc' = "done"
    /\ UNCHANGED <<val, seg_vars, map_vars, drv_vars>>

NextValue == ParseValue

SpecValue == InitValue /\ [][NextValue]_vars

\* C2: for a text whose numeric parse fails, parse_value returns exactly the
\* whitespace-trimmed text, unaltered, and None only when the trimmed text is
\* empty.
C2_FallbackIsTrimmedText ==
    (val_pc = "done" /\ val.kind = "str" /\ val_result.kind \notin {"int", "float"})
    => val_result = (IF Strip(val.s) = <<>> THEN PyNone ELSE PyStr(Strip(val.s)))

\* C11: parse_value returns None for a missing cell (None, NaN), for the
\* empty text, for a text of blanks only, and for the text nan in any letter
\* case, with or without blanks around it.
C11_NullForBlankAndNan ==
    (val_pc = "done"
        /\ \/ val.kind = "None"
           \/ \A i \in 1..Len(val.s) : val.s[i] \in WhiteSpace
           \/ \E t \in NanTexts : \E l, r \in Pads \cup {<<"\n">>} : val.s = l \o t \o r)
    => val_result = PyNone

\* The text NaN with blanks around it was given and None came back.
C11_Witness ==
    /\ val_pc = "done"
    /\ val = PyStr(<<" ">> \o <<"N","a","N">> \o <<" ">>)
    /\ val_result = PyNone

\* A decimal numeral: an optional sign, then digits only.
IsIntNumeral(t) ==
    LET u == IF t # <<>> /\ Head(t) \in {"-", "+"} THEN Tail(t) ELSE t
    IN u # <<>> /\ \A i \in 1..Len(u) : IsDigit(u[i])

\* C12: the text of an integer written with thousands separators, with or
\* without blanks around it, gives back that integer; the text of a decimal
\* fraction written with thousands separators and a decimal point gives the
\* equal float; and a text without a decimal point never gives a float: a
\* numeral without a point gives an int.
C12_SeparatedNumeralRoundTrip ==
    val_pc = "done" =>
        /\ \A n \in IntSamples : \A pad \in Pads :
                val = PyStr(pad \o FormatInt(n) \o pad) => val_result = PyInt(n)
        /\ \A d \in DecimalSamples : \A pad \in Pads :
                val = PyStr(pad \o FormatDecimal(d) \o pad)
                => val_result = PyFloat(d.sign * Normal(d.m, d.e).n, Normal(d.m, d.e).e)
        /\ (val.kind = "str" /\ ~Contains(val.s, <<".">>)) => val_result.kind # "float"
        /\ (val.kind = "str" /\ IsIntNumeral(RemoveChar(Strip(val.s), ",")))
                => val_result.kind = "int"

\* The text of 1234567 with its two separators and blanks around it, and the
\* text 1,234.50, were given and the numbers came back.
C12_Witness ==
    /\ val_pc = "done"
    /\ \/ /\ val = PyStr(<<" ","1",",","2","3","4",",","5","6","7"," ">>)
          /\ val_result = PyInt(1234567)
       \/ /\ val = PyStr(<<"1",",","2","3","4",".","5","0">>)
          /\ val_result = PyFloat(12345, 1)

-----------------------------------------------------------------------------
(* excel-to-json.py: the structured row mappers.  A sheet read back with    *)
(* header=None is a grid: a sequence of rows of equal width whose cells are *)
(* None (NaN) or text.                                                      *)

\* The em-dash, one character of the separator set.
EmDash == "EMDASH"

\* '—-_=*\t '
SepChars == {EmDash, "-", "_", "=", "*", "\t", " "}

\* all(c in '—-_=*\t ' for c in descripcion)
AllSeparators(d) == \A i \in 1..Len(d) : d[i] \in SepChars

\* str(x) if pd.notna(x) else ""
CellStr(c) == IF c.kind = "None" THEN <<>> ELSE c.s

\* descripcion = str(row[0]).strip() if pd.notna(row[0]) else ""
Descripcion(row) == Strip(CellStr(row[1]))

\* SkipDescripcion without the separator test.
SkipDescripcion_NoSeparatorTest(d) == d = <<>> \/ d = kwNan \/ Len(d) < 2

\* the two "continue" tests on the description of a row
SkipDescripcion(d) ==
    d = <<>> \/ d = kwNan \/ Len(d) < 2 \/ AllSeparators(d)

\* a dictionary with the given keys (a sequence) and values
MakeDict(keys, vals) ==
    [k \in {keys[i] : i \in 1..Len(keys)} |->
        vals[CHOOSE i \in 1..Len(keys) : keys[i] = k]]

\* row[c], a label lookup that raises KeyError beyond the width of the grid
HasColumn(row, c) == c < Len(row)

HoyKeys == <<"DESCRIPCION", "BRIX", "SAC", "PZA", "COLOR", "PH", "GR">>

HoyColumns == <<3, 4, 7, 16, 18, 20>>

HastaKeys == <<"DESCRIPCION", "BRIX", "SAC", "PZA">>

HastaColumns == <<9, 11, 14>>

\* the values read at the given columns, each through parse_value
ReadColumns(row, cols) == [i \in 1..Len(cols) |-> parse_value(row[cols[i] + 1])]

\* some row[c] of the two dictionaries raises for this row
AnalisisRowRaises(row) ==
    \E i \in 1..Len(HoyColumns \o HastaColumns) :
        ~HasColumn(row, (HoyColumns \o HastaColumns)[i])

hoy_indicator(d, row) ==
    MakeDict(HoyKeys, <<PyStr(d)>> \o ReadColumns(row, HoyColumns))

\* hasta_indicator labelled with the unstripped leading cell.
hasta_indicator_RawCell(d, row) ==
    MakeDict(HastaKeys, <<PyStr(CellStr(row[1]))>> \o ReadColumns(row, HastaColumns))

hasta_indicator(d, row) ==
    MakeDict(HastaKeys, <<PyStr(d)>> \o ReadColumns(row, HastaColumns))

\* first_val = str(row[0]).upper(): the title row that ends the section
IsTituloProducto(row) ==
    LET first_val == Upper(CellStr(row[1]))
    IN Contains(first_val, kwPRODUCTO) /\ Contains(first_val, kwTERMINADO)

\* producto_start of parse_analisis_from_df: the first title row, else len(df)
AnalisisEnd(grid) ==
    IF \E i \in 1..Len(grid) : IsTituloProducto(grid[i])
    THEN (CHOOSE i \in 1..Len(grid) :
            IsTituloProducto(grid[i]) /\ \A j \in 1..(i - 1) : ~IsTituloProducto(grid[j])) - 1
    ELSE Len(grid)

\* the loop over range(row_idx, stop); acc holds the two lists built so far
RECURSIVE AnalisisLoop(_, _, _, _)
AnalisisLoop(grid, row_idx, stop, acc) ==
    IF row_idx >= stop THEN acc
    ELSE LET row == grid[row_idx + 1]
             d == Descripcion(row)
         IN IF SkipDescripcion(d) THEN AnalisisLoop(grid, row_idx + 1, stop, acc)
            ELSE IF AnalisisRowRaises(row)
            THEN [raised |-> TRUE, hoy |-> <<>>, hasta |-> <<>>]
            ELSE AnalisisLoop(grid, row_idx + 1, stop,
                    [raised |-> FALSE,
                     hoy |-> Append(acc.hoy, hoy_indicator(d, row)),
                     hasta |-> Append(acc.hasta, hasta_indicator(d, row))])

parse_analisis_from_df(grid) ==
    AnalisisLoop(grid, 2, AnalisisEnd(grid),
                 [raised |-> FALSE, hoy |-> <<>>, hasta |-> <<>>])

kwESTANDAR == <<"E","S","T","A","N","D","A","R">>

kwHOY == <<"H","O","Y">>

kwHASTA == <<"H","A","S","T","A">>

\* first_val = str(df.iloc[row_idx, 0]).strip().upper()
FirstVal(row) == Upper(Strip(CellStr(row[1])))

\* the scan for the three rows; it stops at the HASTA row it accepts
\* ProductoScan going on to the last row after a HASTA row is found.
ProductoScan_NoBreak(grid, row_idx, est, hoy) ==
    LET RECURSIVE scan(_, _, _, _)
        scan(i, e, h, t) ==
            IF i >= Len(grid)
            THEN [estandar_row_idx |-> e, hoy_row_idx |-> h, hasta_row_idx |-> t]
            ELSE LET first_val == FirstVal(grid[i + 1])
                 IN IF Contains(first_val, kwESTANDAR) THEN scan(i + 1, i, h, t)
                    ELSE IF first_val = kwHOY THEN scan(i + 1, e, i, t)
                    ELSE IF first_val = kwHASTA /\ h # NoneIdx THEN scan(i + 1, e, h, i)
                    ELSE scan(i + 1, e, h, t)
    IN scan(row_idx, est, hoy, NoneIdx)

RECURSIVE ProductoScan(_, _, _, _)
ProductoScan(grid, row_idx, est, hoy) ==
    IF row_idx >= Len(grid)
    THEN [estandar_row_idx |-> est, hoy_row_idx |-> hoy, hasta_row_idx |-> NoneIdx]
    ELSE LET first_val == FirstVal(grid[row_idx + 1])
         IN IF Contains(first_val, kwESTANDAR)
            THEN ProductoScan(grid, row_idx + 1, row_idx, hoy)
            ELSE IF first_val = kwHOY
            THEN ProductoScan(grid, row_idx + 1, est, row_idx)
            ELSE IF first_val = kwHASTA /\ hoy # NoneIdx
            THEN [estandar_row_idx |-> est, hoy_row_idx |-> hoy,
                  hasta_row_idx |-> row_idx]
            ELSE ProductoScan(grid, row_idx + 1, est, hoy)

\* Fewest rows of a PRODUCTO_TERMINADO sheet that is parsed at all.
ProductoMinRows == 5

\* The seven metric names of column_mapping.
txtTOTAL_QQ_CRUDA ==
    <<"T","O","T","A","L"," ","Q","Q"," ","C","R","U","D","A">>

txtTOTAL_QQ_ESTAN ==
    <<"T","O","T","A","L"," ","Q","Q"," ","E","S","T","A","N",".">>

txtTOTAL_QQ_REFIN ==
    <<"T","O","T","A","L"," ","Q","Q"," ","R","E","F","I","N",".">>

txtQQ_PRODUCIDOS ==
    <<"Q","Q"," ","P","R","O","D","U","C","I","D","O","S">>

txtAZ_EQUIV_MIEL ==
    <<"A","Z","."," ","E","Q","U","I","V","."," ","(","M","I","E","L",
      ")">>

txtAZ_PMR ==
    <<"A","Z","."," ","P","M","R">>

txtTOTAL_QUINTALES ==
    <<"T","O","T","A","L"," ","Q","U","I","N","T","A","L","E","S">>

ProductoKeys == <<"DESCRIPCION", "ESTANDAR/DIA", "HOY", "HASTA">>

\* column_mapping with the seven metrics bound to consecutive columns.
column_mapping_Consecutive ==
    << <<txtTOTAL_QQ_CRUDA, 1>>,
       <<txtTOTAL_QQ_ESTAN, 2>>,
       <<txtTOTAL_QQ_REFIN, 3>>,
       <<txtQQ_PRODUCIDOS, 4>>,
       <<txtAZ_EQUIV_MIEL, 5>>,
       <<txtAZ_PMR, 6>>,
       <<txtTOTAL_QUINTALES, 7>> >>

column_mapping ==
    << <<txtTOTAL_QQ_CRUDA, 1>>,
       <<txtTOTAL_QQ_ESTAN, 2>>,
       <<txtTOTAL_QQ_REFIN, 5>>,
       <<txtQQ_PRODUCIDOS, 8>>,
       <<txtAZ_EQUIV_MIEL, 11>>,
       <<txtAZ_PMR, 14>>,
       <<txtTOTAL_QUINTALES, 17>> >>

\* df.iloc[r, c] through parse_value when c < len(df.columns), else None
CellOrNone(grid, r, c) ==
    IF c < Len(grid[r + 1]) THEN parse_value(grid[r + 1][c + 1]) ELSE PyNone

producto_indicator(grid, found, m) ==
    MakeDict(ProductoKeys,
             <<PyStr(m[1]),
               CellOrNone(grid, found.estandar_row_idx, m[2]),
               CellOrNone(grid, found.hoy_row_idx, m[2]),
               CellOrNone(grid, found.hasta_row_idx, m[2])>>)

\* none of the three row indices is None
AllFound(found) ==
    /\ found.estandar_row_idx # NoneIdx
    /\ found.hoy_row_idx # NoneIdx
    /\ found.hasta_row_idx # NoneIdx

\* parse_producto_from_df returning Indicators as soon as the HASTA row is
\* found, with null for the cells of a row that was not found.
parse_producto_from_df_Partial(grid) ==
    IF Len(grid) < ProductoMinRows THEN <<>>
    ELSE LET found == ProductoScan(grid, 0, NoneIdx, NoneIdx)
         IN IF found.hasta_row_idx = NoneIdx THEN <<>>
            ELSE [i \in 1..Len(column_mapping) |->
                    MakeDict(ProductoKeys,
                        <<PyStr(column_mapping[i][1]),
                          IF found.estandar_row_idx = NoneIdx THEN PyNone
                          ELSE CellOrNone(grid, found.estandar_row_idx,
                                          column_mapping[i][2]),
                          CellOrNone(grid, found.hoy_row_idx, column_mapping[i][2]),
                          CellOrNone(grid, found.hasta_row_idx, column_mapping[i][2])>>)]

parse_producto_from_df(grid) ==
    IF Len(grid) < ProductoMinRows THEN <<>>
    ELSE LET found == ProductoScan(grid, 0, NoneIdx, NoneIdx)
         IN IF ~AllFound(found) THEN <<>>
            ELSE [i \in 1..Len(column_mapping) |->
                    producto_indicator(grid, found, column_mapping[i])]

\* The key "TEMP. C." stands for the source's key with the ordinal sign.
col_mapping ==
    << <<"Quintales", 2>>, <<"% HUM.", 4>>, <<"% CEN.", 6>>, <<"% POL.", 8>>,
       <<"COLOR", 9>>, <<"Mg/kg Vit.\"A\"", 10>>, <<"T. GRANO", 11>>,
       <<"% C.V", 13>>, <<"FS", 14>>, <<"TEMP. C.", 15>>, <<"SED.", 16>> >>

ContinuacionKeys ==
    <<"DESCRIPCION">> \o [i \in 1..Len(col_mapping) |-> col_mapping[i][1]]

continuacion_indicator(d, row) ==
    MakeDict(ContinuacionKeys,
             <<PyStr(d)>> \o
             [i \in 1..Len(col_mapping) |->
                IF col_mapping[i][2] < Len(row)
                THEN parse_value(row[col_mapping[i][2] + 1]) ELSE PyNone])

\* the loop over range(row_idx, len(df))
RECURSIVE ContinuacionLoop(_, _, _)
ContinuacionLoop(grid, row_idx, acc) ==
    IF row_idx >= Len(grid) THEN acc
    ELSE LET row == grid[row_idx + 1]
             d == Descripcion(row)
         IN IF SkipDescripcion(d) THEN ContinuacionLoop(grid, row_idx + 1, acc)
            ELSE ContinuacionLoop(grid, row_idx + 1,
                                  Append(acc, continuacion_indicator(d, row)))

\* parse_continuacion_from_df reading the header row as a data row.
parse_continuacion_from_df_FromRowZero(grid) ==
    IF Len(grid) < 2 THEN <<>> ELSE ContinuacionLoop(grid, 0, <<>>)

parse_continuacion_from_df(grid) ==
    IF Len(grid) < 2 THEN <<>> ELSE ContinuacionLoop(grid, 1, <<>>)

\* Leading cells of the ANALISIS and CONTINUACION sheets: an empty cell, a
\* product name with surrounding blanks, a separator row, a one-character
\* cell, the text nan and the title of the finished-product table.
LeadCells ==
    << PyNone,
       PyStr(<<" ","J","u","g","o"," ","M","i","x","t","o"," ">>),
       PyStr(<<"-","-","-","-">>),
       PyStr(<<"A">>),
       PyStr(kwNan),
       PyStr(<<"P","r","o","d","u","c","t","o"," ","T","e","r","m","i","n","a","d","o">>) >>

\* Leading cells of the PRODUCTO_TERMINADO sheet.
ProductoLeadCells ==
    << PyStr(txtJugo),
       PyStr(<<"E","s","t","a","n","d","a","r","/","D","i","a">>),
       PyStr(<<" ","h","o","y">>),
       PyStr(kwHASTA) >>

\* Cells of the other columns.
DataCells ==
    << PyNone,
       PyStr(txtNum),
       PyStr(<<"1",",","2","3","4">>),
       PyStr(<<"a","b","c">>),
       PyStr(<<"1","4">>) >>

\* Widths of a sheet: narrower than every schema, and as wide as the widest.
GridWidths == {12, 21}

\* Largest number of rows of each sheet.
MaxAnalisisRows == 4

MaxProductoRows == 5

MaxContinuacionRows == 3

\* The grid with the given leading cells and width.
Grid(leads, w) ==
    [r \in 1..Len(leads) |->
        [c \in 1..w |-> IF c = 1 THEN leads[r]
                        ELSE DataCells[((3 * r + c) % Len(DataCells)) + 1]]]

InitStructured ==
    /\ source = "excel"
    /\ \/ /\ table_kind = "ANALISIS"
          /\ \E len \in 0..MaxAnalisisRows : \E f \in [1..len -> 1..Len(LeadCells)] :
                \E w \in GridWidths :
                    df = Grid([i \in 1..len |-> LeadCells[f[i]]], w)
       \/ /\ table_kind = "PRODUCTO_TERMINADO"
          /\ \E len \in 0..MaxProductoRows :
                \E f \in [1..len -> 1..Len(ProductoLeadCells)] : \E w \in GridWidths :
                    df = Grid([i \in 1..len |-> ProductoLeadCells[f[i]]], w)
       \/ /\ table_kind = "CONTINUACION"
          /\ \E len \in 0..MaxContinuacionRows : \E f \in [1..len -> 1..Len(LeadCells)] :
                \E w \in GridWidths :
                    df = Grid([i \in 1..len |-> LeadCells[f[i]]], w)
    /\ text = <<>>
    /\ hoy_indicators = <<>>
    /\ hasta_indicators = <<>>
    /\ producto_indicators = <<>>
    /\ continuacion_indicators = <<>>
    /\ map_pc = "ready"
    /\ SegIdle
    /\ ValIdle
    /\ DrvIdle

\* excel_to_json, the ANALISIS sheet: both groups, or the KeyError propagates
ParseAnalisisSheet ==
    /\ source = "excel" /\ table_kind = "ANALISIS" /\ map_pc = "ready"
    /\ LET got == parse_analisis_from_df(df)
       IN /\ hoy_indicators' = got.hoy
          /\ hasta_indicators' = got.hasta
          /\ map_pc' = IF got.raised THEN "raised" ELSE "done"
    /\ UNCHANGED <<source, table_kind, df, text, producto_indicators,
                   continuacion_indicators, seg_vars, val_vars,
                   drv_vars>>

\* excel_to_json, the PRODUCTO_TERMINADO sheet
ParseProductoSheet ==
    /\ source = "excel" /\ table_kind = "PRODUCTO_TERMINADO" /\ map_pc = "ready"
    /\ producto_indicators' = parse_producto_from_df(df)
    /\ map_pc' = "done"
    /\ UNCHANGED <<source, table_kind, df, text, hoy_indicators, hasta_indicators,
                   continuacion_indicators, seg_vars, val_vars,
                   drv_vars>>

\* excel_to_json, the CONTINUACION sheet
ParseContinuacionSheet ==
    /\ source = "excel" /\ table_kind = "CONTINUACION" /\ map_pc = "ready"
    /\ continuacion_indicators' = parse_continuacion_from_df(df)
    /\ map_pc' = "done"
    /\ UNCHANGED <<source, table_kind, df, text, hoy_indicators, hasta_indicators,
                   producto_indicators, seg_vars, val_vars,
                   drv_vars>>

NextStructured ==
    \/ ParseAnalisisSheet
    \/ ParseProductoSheet
    \/ ParseContinuacionSheet

SpecStructured == InitStructured /\ [][NextStructured]_vars

-----------------------------------------------------------------------------
(* extract_tables.py: parse_number and the text token mappers.              *)

Quote == "\""

kwNoNumber == { <<"n","u","l","l">>, <<"n","o","n","e">>, <<>>, <<"-">>,
                <<"n","/","a">> }

\* parse_number: a text that is no number is None unless it is quoted
parse_number(t) ==
    IF t = <<>> THEN PyNone
    ELSE LET stripped == Strip(t)
         IN IF stripped = <<>> \/ Lower(stripped) \in kwNoNumber THEN PyNone
            ELSE LET clean == RemoveChar(RemoveChar(stripped, ","), " ")
                     quoted == StartsWith(clean, <<Quote>>)
                                 /\ clean[Len(clean)] = Quote
                 IN IF Contains(clean, <<".">>)
                    THEN (IF FloatOk(clean) THEN FloatVal(clean)
                          ELSE IF quoted THEN PyStr(clean) ELSE PyNone)
                    ELSE (IF IntOk(clean) THEN PyInt(IntVal(clean))
                          ELSE IF quoted THEN PyStr(clean) ELSE PyNone)

\* lines = text.strip().split('\n')
TextLines(t) == SplitOn(Strip(t), "\n", <<>>)

\* line = line.strip(); line = line.replace('|', ' ')
CleanLine(line) == ReplaceChar(Strip(line), "|", " ")

\* re.match(r'^[\d,\.]+$', token)
IsNumericToken(tok) ==
    tok # <<>> /\ \A i \in 1..Len(tok) : IsDigit(tok[i]) \/ tok[i] \in {",", "."}

\* re.match(r'^-?[\d,\.\"]+$', token)
IsContinuacionNumericToken(tok) ==
    LET body == IF tok # <<>> /\ Head(tok) = "-" THEN Tail(tok) ELSE tok
    IN body # <<>>
        /\ \A i \in 1..Len(body) : IsDigit(body[i]) \/ body[i] \in {",", ".", Quote}

\* the token walk of the analysis mapper: the description tokens before the
\* first numeric token, and the numeric tokens with their commas removed
RECURSIVE WalkTokens(_, _, _)
WalkTokens(tokens, found_number, acc) ==
    IF tokens = <<>> THEN acc
    ELSE IF IsNumericToken(Head(tokens))
    THEN WalkTokens(Tail(tokens), TRUE,
            [acc EXCEPT !.values = Append(@, RemoveChar(Head(tokens), ","))])
    ELSE IF ~found_number
    THEN WalkTokens(Tail(tokens), found_number,
            [acc EXCEPT !.desc_parts = Append(@, Head(tokens))])
    ELSE WalkTokens(Tail(tokens), found_number, acc)

\* the token walk of the continuation mapper
RECURSIVE WalkContinuacionTokens(_, _, _)
WalkContinuacionTokens(tokens, found_number, acc) ==
    IF tokens = <<>> THEN acc
    ELSE IF IsContinuacionNumericToken(Head(tokens))
    THEN WalkContinuacionTokens(Tail(tokens), TRUE,
            [acc EXCEPT !.values =
                Append(@, ReplaceChar(RemoveChar(Head(tokens), ","), "-", "."))])
    ELSE IF ~found_number
    THEN WalkContinuacionTokens(Tail(tokens), found_number,
            [acc EXCEPT !.desc_parts = Append(@, Head(tokens))])
    ELSE WalkContinuacionTokens(Tail(tokens), found_number, acc)

kwANALISIS == <<"A","N","A","L","I","S","I","S">>

kwSAC == <<"S","A","C">>

kwPZA == <<"P","Z","A">>

kwCOLOR == <<"C","O","L","O","R">>

kwPH == <<"P","H">>

HeaderWords == {kwANALISIS, txtBrix, kwSAC, kwPZA, kwCOLOR, kwPH}

ProductWords ==
    { <<"J","U","G","O">>, <<"C","A","C","H","A","Z","A">>,
      <<"M","E","L","A","D","U","R","A">>, <<"S","I","R","O","P","E">>,
      <<"M","A","G","M","A">>, <<"R","U","N">>, <<"M","A","S","A">>,
      <<"M","I","E","L">> }

\* Fewest tokens of a HOY/HASTA line that is not skipped as a header.
HoyHastaMinTokens == 10

\* the two header tests of the analysis mapper on a cleaned line
IsHeaderLine(line) ==
    LET upper_line == Upper(line)
    IN \/ /\ Contains(upper_line, kwHOY)
          /\ Contains(upper_line, kwHASTA)
          /\ Len(SplitWs(line, <<>>)) < HoyHastaMinTokens
       \/ /\ \E w \in HeaderWords : Contains(upper_line, w)
          /\ ~\E w \in ProductWords : Contains(upper_line, w)

\* AnalisisLine with every non-numeric token of the line in the description.
AnalisisLine_AllWordsInDescription(rawline) ==
    LET line == CleanLine(rawline)
        tokens == SplitWs(line, <<>>)
        walk == WalkTokens(tokens, FALSE, [desc_parts |-> <<>>, values |-> <<>>])
        words == SelectSeq(tokens, LAMBDA tok : ~IsNumericToken(tok))
    IN [emit |-> /\ Strip(rawline) # <<>>
                 /\ ~IsHeaderLine(line)
                 /\ Len(tokens) >= 2
                 /\ words # <<>>,
        description |-> Join(words, <<" ">>),
        values |-> walk.values]

\* One line of the analysis text: whether it yields a pair, its description
\* and its classified values.
AnalisisLine(rawline) ==
    LET line == CleanLine(rawline)
        tokens == SplitWs(line, <<>>)
        walk == WalkTokens(tokens, FALSE, [desc_parts |-> <<>>, values |-> <<>>])
    IN [emit |-> /\ Strip(rawline) # <<>>
                 /\ ~IsHeaderLine(line)
                 /\ Len(tokens) >= 2
                 /\ walk.desc_parts # <<>>,
        description |-> Join(walk.desc_parts, <<" ">>),
        values |-> walk.values]

\* parse_number(values[idx]) if idx < len(values) else None
ValueAt(values, idx) ==
    IF idx < Len(values) THEN parse_number(values[idx + 1]) ELSE PyNone

\* text_hoy_indicator with COLOR, PH and GR read right after the first three
\* values.
text_hoy_indicator_Consecutive(description, values) ==
    MakeDict(HoyKeys,
             <<PyStr(description), ValueAt(values, 0), ValueAt(values, 1),
               ValueAt(values, 2), ValueAt(values, 3), ValueAt(values, 4),
               ValueAt(values, 5)>>)

text_hoy_indicator(description, values) ==
    MakeDict(HoyKeys,
             <<PyStr(description), ValueAt(values, 0), ValueAt(values, 1),
               ValueAt(values, 2), ValueAt(values, 6), ValueAt(values, 7),
               ValueAt(values, 8)>>)

text_hasta_indicator(description, values) ==
    MakeDict(HastaKeys,
             <<PyStr(description), ValueAt(values, 3), ValueAt(values, 4),
               ValueAt(values, 5)>>)

\* the loop over the lines; acc holds the two lists built so far
RECURSIVE AnalisisTextLoop(_, _)
AnalisisTextLoop(lines, acc) ==
    IF lines = <<>> THEN acc
    ELSE LET ln == AnalisisLine(Head(lines))
         IN IF ~ln.emit THEN AnalisisTextLoop(Tail(lines), acc)
            ELSE AnalisisTextLoop(Tail(lines),
                    [hoy |-> Append(acc.hoy,
                                text_hoy_indicator(ln.description, ln.values)),
                     hasta |-> Append(acc.hasta,
                                text_hasta_indicator(ln.description, ln.values))])

parse_text_based_analisis(t) ==
    AnalisisTextLoop(TextLines(t), [hoy |-> <<>>, hasta |-> <<>>])

kwCONTINUACION == <<"C","O","N","T","I","N","U","A","C","I","O","N">>

\* CONTINUACION written with its accent; "OACUTE" is the accented O.
kwCONTINUACION_ACENTO == <<"C","O","N","T","I","N","U","A","C","I","OACUTE","N">>

kwHUM == <<"H","U","M">>

\* all(c in '—-_= \t' for c in description)
TextSepChars == {EmDash, "-", "_", "=", " ", "\t"}

\* a line of the continuation text that starts the section
IsContinuacionStart(line) ==
    Contains(line, kwDESCRIPCION) /\ Contains(line, kwQuintales)

\* a column header line inside the continuation section
IsContinuacionHeader(line) ==
    /\ \E w \in {kwCONTINUACION, kwCONTINUACION_ACENTO, kwDESCRIPCION} :
            Contains(Upper(line), w)
    /\ Contains(line, kwQuintales) \/ Contains(line, kwHUM)

\* str.strip('"')
RECURSIVE StripQuotes(_)
StripQuotes(t) ==
    IF t # <<>> /\ Head(t) = Quote THEN StripQuotes(Tail(t))
    ELSE IF t # <<>> /\ t[Len(t)] = Quote THEN StripQuotes(SubSeq(t, 1, Len(t) - 1))
    ELSE t

column_names ==
    <<"DESCRIPCION", "Quintales", "% HUM.", "% CEN.", "% POL.", "COLOR",
      "Mg/kg Vit.\"A\"", "T. GRANO", "% C.V", "FS", "TEMP. C.", "SED.">>

\* the value of column i (zero-based, after the description) of a line
ContinuacionValueAt(values, i) ==
    IF i < Len(values)
    THEN LET value == parse_number(values[i + 1])
         IN IF column_names[i + 2] = "FS" /\ value = PyNone
            THEN (IF StripQuotes(values[i + 1]) # <<>>
                  THEN PyStr(StripQuotes(values[i + 1])) ELSE PyNone)
            ELSE value
    ELSE PyNone

text_continuacion_indicator(description, values) ==
    MakeDict(column_names,
             <<PyStr(description)>> \o
             [i \in 1..(Len(column_names) - 1) |-> ContinuacionValueAt(values, i - 1)])

\* One line of the continuation text after the section has started.
ContinuacionLine(line) ==
    LET tokens == SplitWs(line, <<>>)
        walk == WalkContinuacionTokens(tokens, FALSE,
                                       [desc_parts |-> <<>>, values |-> <<>>])
        description == Join(walk.desc_parts, <<" ">>)
    IN [emit |-> /\ ~IsContinuacionHeader(line)
                 /\ Len(tokens) >= 2
                 /\ walk.desc_parts # <<>>
                 /\ ~\A i \in 1..Len(description) : description[i] \in TextSepChars,
        description |-> description,
        values |-> walk.values]

\* the loop over the lines with the start_parsing flag
RECURSIVE ContinuacionTextLoop(_, _, _)
ContinuacionTextLoop(lines, start_parsing, acc) ==
    IF lines = <<>> THEN acc
    ELSE LET line == CleanLine(Head(lines))
         IN IF line = <<>> THEN ContinuacionTextLoop(Tail(lines), start_parsing, acc)
            ELSE IF IsContinuacionStart(line)
            THEN ContinuacionTextLoop(Tail(lines), TRUE, acc)
            ELSE IF ~start_parsing
            THEN ContinuacionTextLoop(Tail(lines), start_parsing, acc)
            ELSE LET ln == ContinuacionLine(line)
                 IN IF ~ln.emit
                    THEN ContinuacionTextLoop(Tail(lines), start_parsing, acc)
                    ELSE ContinuacionTextLoop(Tail(lines), start_parsing,
                            Append(acc, text_continuacion_indicator(
                                            ln.description, ln.values)))

parse_text_based_continuacion(t) == ContinuacionTextLoop(TextLines(t), FALSE, <<>>)

kwTOTAL == <<"T","O","T","A","L">>

kwQQ == <<"Q","Q">>

kwCRUDA == <<"C","R","U","D","A">>

kwAZ == <<"A","Z",".">>

\* SplitHeaders starting a new phrase before TOTAL only.
RECURSIVE SplitHeaders_TotalOnly(_, _, _, _)
SplitHeaders_TotalOnly(tokens, i, current_header, acc) ==
    IF i >= Len(tokens)
    THEN (IF current_header # <<>> THEN Append(acc, Join(current_header, <<" ">>))
          ELSE acc)
    ELSE LET cur == Append(current_header, tokens[i + 1])
             starts_new ==
                /\ i + 1 < Len(tokens)
                /\ tokens[i + 2] = kwTOTAL
                /\ Len(cur) >= 2 \/ cur[Len(cur)] # kwTOTAL
         IN IF starts_new
            THEN SplitHeaders_TotalOnly(tokens, i + 1, <<>>,
                                        Append(acc, Join(cur, <<" ">>)))
            ELSE SplitHeaders_TotalOnly(tokens, i + 1, cur, acc)

\* SplitHeaders closing a phrase without the token that ends it.
RECURSIVE SplitHeaders_DropLastToken(_, _, _, _)
SplitHeaders_DropLastToken(tokens, i, current_header, acc) ==
    IF i >= Len(tokens)
    THEN (IF current_header # <<>> THEN Append(acc, Join(current_header, <<" ">>))
          ELSE acc)
    ELSE LET cur == Append(current_header, tokens[i + 1])
             starts_new ==
                /\ i + 1 < Len(tokens)
                /\ \/ /\ tokens[i + 2] = kwTOTAL
                      /\ Len(cur) >= 2 \/ cur[Len(cur)] # kwTOTAL
                   \/ /\ tokens[i + 2] \in {kwQQ, kwAZ}
                      /\ cur[Len(cur)] \notin {kwTOTAL, kwQQ}
         IN IF starts_new
            THEN SplitHeaders_DropLastToken(tokens, i + 1, <<>>,
                                            Append(acc, Join(current_header, <<" ">>)))
            ELSE SplitHeaders_DropLastToken(tokens, i + 1, cur, acc)

\* the header phrases of one part of the header line: a new phrase starts
\* before TOTAL, and before QQ or AZ. unless the phrase ends in TOTAL or QQ
RECURSIVE SplitHeaders(_, _, _, _)
SplitHeaders(tokens, i, current_header, acc) ==
    IF i >= Len(tokens)
    THEN (IF current_header # <<>> THEN Append(acc, Join(current_header, <<" ">>))
          ELSE acc)
    ELSE LET cur == Append(current_header, tokens[i + 1])
             starts_new ==
                /\ i + 1 < Len(tokens)
                /\ \/ /\ tokens[i + 2] = kwTOTAL
                      /\ Len(cur) >= 2 \/ cur[Len(cur)] # kwTOTAL
                   \/ /\ tokens[i + 2] \in {kwQQ, kwAZ}
                      /\ cur[Len(cur)] \notin {kwTOTAL, kwQQ}
         IN IF starts_new
            THEN SplitHeaders(tokens, i + 1, <<>>, Append(acc, Join(cur, <<" ">>)))
            ELSE SplitHeaders(tokens, i + 1, cur, acc)

\* parts = [p.strip() for p in line.split('|') if p.strip()]
RECURSIVE StrippedParts(_)
StrippedParts(pieces) ==
    IF pieces = <<>> THEN <<>>
    ELSE (IF Strip(Head(pieces)) # <<>> THEN <<Strip(Head(pieces))>> ELSE <<>>)
            \o StrippedParts(Tail(pieces))

\* the header phrases of all the parts, appended to column_headers
RECURSIVE HeadersOfParts(_, _)
HeadersOfParts(parts, acc) ==
    IF parts = <<>> THEN acc
    ELSE HeadersOfParts(Tail(parts),
                        SplitHeaders(SplitWs(Head(parts), <<>>), 0, <<>>, acc))

\* the header line: every "[" becomes a part separator (the line holds no
\* "|" any more), then the parts are split into phrases
HeadersOfLine(line, acc) ==
    HeadersOfParts(StrippedParts(SplitOn(ReplaceChar(line, "[", "|"), "|", <<>>)), acc)

\* the numeric tokens of a value row, each through parse_number
RECURSIVE NumericValues(_)
NumericValues(tokens) ==
    IF tokens = <<>> THEN <<>>
    ELSE (IF IsNumericToken(Head(tokens))
          THEN <<parse_number(RemoveChar(Head(tokens), ","))>> ELSE <<>>)
            \o NumericValues(Tail(tokens))

\* for token in tokens[1:]
RowValues(line) == NumericValues(Tail(SplitWs(line, <<>>)))

\* the loop over the lines of the finished-product text; it stops at the
\* header of the continuation table
RECURSIVE ProductoTextLoop(_, _)
ProductoTextLoop(lines, acc) ==
    IF lines = <<>> THEN acc
    ELSE LET line == CleanLine(Head(lines))
             upper_line == Upper(line)
         IN IF line = <<>> THEN ProductoTextLoop(Tail(lines), acc)
            ELSE IF Contains(upper_line, kwDESCRIPCION) /\ Contains(line, kwQuintales)
            THEN acc
            ELSE IF Contains(upper_line, kwPRODUCTO) /\ Contains(upper_line, kwTERMINADO)
            THEN ProductoTextLoop(Tail(lines), acc)
            ELSE IF /\ Contains(upper_line, kwTOTAL)
                    /\ Contains(upper_line, kwQQ)
                    /\ Contains(upper_line, kwCRUDA)
            THEN ProductoTextLoop(Tail(lines),
                    [acc EXCEPT !.column_headers = HeadersOfLine(line, @)])
            ELSE IF StartsWith(upper_line, kwESTANDAR)
            THEN ProductoTextLoop(Tail(lines),
                    [acc EXCEPT !.estandar_values = @ \o RowValues(line)])
            ELSE IF StartsWith(upper_line, kwHOY)
            THEN ProductoTextLoop(Tail(lines),
                    [acc EXCEPT !.hoy_values = @ \o RowValues(line)])
            ELSE IF StartsWith(upper_line, kwHASTA)
            THEN ProductoTextLoop(Tail(lines),
                    [acc EXCEPT !.hasta_values = @ \o RowValues(line)])
            ELSE ProductoTextLoop(Tail(lines), acc)

\* Number of leading metrics that have an ESTANDAR value.
EstandarLeading == 4

\* Number of metrics, after those, that have no ESTANDAR value.
EstandarAbsent == 2

\* estandar_idx for the header at position i (zero-based), None for the two
\* metrics the ESTANDAR row does not have
estandar_idx(i) ==
    IF i < EstandarLeading THEN i
    ELSE IF i < EstandarLeading + EstandarAbsent THEN NoneIdx
    ELSE i - EstandarAbsent

\* values[i] if i < len(values) else None
ListAt(values, i) == IF i < Len(values) THEN values[i + 1] ELSE PyNone

text_producto_indicator(acc, i) ==
    MakeDict(ProductoKeys,
             <<PyStr(acc.column_headers[i + 1]),
               IF estandar_idx(i) # NoneIdx
               THEN ListAt(acc.estandar_values, estandar_idx(i)) ELSE PyNone,
               ListAt(acc.hoy_values, i),
               ListAt(acc.hasta_values, i)>>)

parse_text_based_producto(t) ==
    LET acc == ProductoTextLoop(TextLines(t),
                    [column_headers |-> <<>>, estandar_values |-> <<>>,
                     hoy_values |-> <<>>, hasta_values |-> <<>>])
    IN [i \in 1..Len(acc.column_headers) |-> text_producto_indicator(acc, i - 1)]

\* Pieces of recognised text: a well-formed data line, a number, a token of
\* digits with two decimal points, a separator run, a one-character word, a
\* line break and the header of the continuation table.
Fragments ==
    << <<"J","u","g","o"," ","M","i","x","t","o"," ","8","5",".","2"," ",
      "1","4",".","1","\n">>,
       txtNum,
       <<"1",".","2",".","3">>,
       <<"-","-","-","-">>,
       <<"A">>,
       <<"\n">>,
       <<"D","E","S","C","R","I","P","C","I","O","N"," ","Q","u","i","n",
      "t","a","l","e","s","\n">> >>

\* Largest number of fragments of a text.
MaxFragments == 4

InitText ==
    /\ source = "image"
    /\ table_kind \in {"ANALISIS", "CONTINUACION"}
    /\ \E len \in 0..MaxFragments : \E f \in [1..len -> 1..Len(Fragments)] :
            text = Join([i \in 1..len |-> Fragments[f[i]]], <<" ">>)
    /\ df = <<>>
    /\ hoy_indicators = <<>>
    /\ hasta_indicators = <<>>
    /\ producto_indicators = <<>>
    /\ continuacion_indicators = <<>>
    /\ map_pc = "ready"
    /\ SegIdle
    /\ ValIdle
    /\ DrvIdle

\* main, region 0: the text of the first region gives both ANALISIS groups
ParseAnalisisText ==
    /\ source = "image" /\ table_kind = "ANALISIS" /\ map_pc = "ready"
    /\ LET got == parse_text_based_analisis(text)
       IN /\ hoy_indicators' = got.hoy
          /\ hasta_indicators' = got.hasta
    /\ map_pc' = "done"
    /\ UNCHANGED <<source, table_kind, df, text, producto_indicators,
                   continuacion_indicators, seg_vars, val_vars,
                   drv_vars>>

\* main, region 2: the text of the third region gives the CONTINUACION group
ParseContinuacionText ==
    /\ source = "image" /\ table_kind = "CONTINUACION" /\ map_pc = "ready"
    /\ continuacion_indicators' = parse_text_based_continuacion(text)
    /\ map_pc' = "done"
    /\ UNCHANGED <<source, table_kind, df, text, hoy_indicators, hasta_indicators,
                   producto_indicators, seg_vars, val_vars,
                   drv_vars>>

NextText ==
    \/ ParseAnalisisText
    \/ ParseContinuacionText

SpecText == InitText /\ [][NextText]_vars

InitMappers == InitStructured \/ InitText

NextMappers == NextStructured \/ NextText

SpecMappers == InitMappers /\ [][NextMappers]_vars

\* Leading tokens of a generated line: none, product names, a product name
\* with a header word, a header word alone, the two column titles with a
\* product name, a one-letter word and a separator run.
LineHeads ==
    { <<>>,
      << <<"J","u","g","o">> >>,
      << <<"J","u","g","o">>, <<"M","i","x","t","o">> >>,
      << <<"M","I","E","L">>, <<"P","H">> >>,
      << <<"C","o","l","o","r">> >>,
      << <<"H","O","Y">>, <<"H","A","S","T","A">>, <<"J","u","g","o">> >>,
      << <<"A">> >>,
      << <<"-","-","-","-">> >> }

\* The i-th numeral of a generated line: pairwise different, one with a
\* decimal point and one with a thousands separator.
ValueToken(i) ==
    IF i = 2 THEN <<"2",".","5">>
    ELSE IF i = 4 THEN <<"1",",","0","0","0">>
    ELSE DigitsOf(i)

\* Tokens put between the numerals: a word, and a signed numeral that only
\* the continuation pattern accepts.
NoiseTokens == { <<"x">>, <<"-","5">> }

\* Largest number of numerals of a generated line.
MaxValues == 12

\* First numerals used: ValueToken(o + 1) onwards.
ValueOffsets == {0, 1}

\* A line: the head, k numerals from offset o, and the noise after the j-th.
TokenLine(head, k, o, j, noise) ==
    Join(head \o [i \in 1..j |-> ValueToken(o + i)] \o noise
              \o [i \in 1..(k - j) |-> ValueToken(o + j + i)], <<" ">>)

\* A second data line of the analysis text.
txtSecondLine == <<"\n","M","a","s","a"," ","4"," ","5">>

\* The header line that starts the continuation section.
txtContinuacionHeader ==
    <<"D","E","S","C","R","I","P","C","I","O","N"," ","Q","u","i","n","t","a","l","e","s","\n">>

\* Recognised text of one region made of generated lines.
InitTokens ==
    /\ source = "image"
    /\ table_kind \in {"ANALISIS", "CONTINUACION"}
    /\ \E head \in LineHeads : \E k \in 0..MaxValues : \E o \in ValueOffsets :
         \E j \in {0, 1, k} \cap 0..k :
          \E noise \in {<<>>} \cup {<<t>> : t \in NoiseTokens} :
            LET line == TokenLine(head, k, o, j, noise)
            IN IF table_kind = "ANALISIS"
               THEN text \in {line, line \o txtSecondLine}
               ELSE text = txtContinuacionHeader \o line
    /\ df = <<>>
    /\ hoy_indicators = <<>>
    /\ hasta_indicators = <<>>
    /\ producto_indicators = <<>>
    /\ continuacion_indicators = <<>>
    /\ map_pc = "ready"
    /\ SegIdle
    /\ ValIdle
    /\ DrvIdle

SpecTokens == InitTokens /\ [][NextText]_vars

\* The header line of the finished-product table as the report prints it.
txtCanonicalHeader ==
    Join(<<txtTOTAL_QQ_CRUDA, txtTOTAL_QQ_ESTAN, txtTOTAL_QQ_REFIN, txtQQ_PRODUCIDOS,
           txtAZ_EQUIV_MIEL, txtAZ_PMR, txtTOTAL_QUINTALES>>, <<" ">>)

\* The same line with the column borders recognised as "|" or as "[".
txtBorderedHeader ==
    <<"|", " ">> \o Join(<<txtTOTAL_QQ_CRUDA, txtTOTAL_QQ_ESTAN, txtTOTAL_QQ_REFIN,
                          txtQQ_PRODUCIDOS, txtAZ_EQUIV_MIEL, txtAZ_PMR,
                          txtTOTAL_QUINTALES>>, <<" ", "|", " ">>) \o <<" ", "|">>

txtBracketHeader ==
    Join(<<txtTOTAL_QQ_CRUDA, txtTOTAL_QQ_ESTAN, txtTOTAL_QQ_REFIN, txtQQ_PRODUCIDOS,
           txtAZ_EQUIV_MIEL, txtAZ_PMR, txtTOTAL_QUINTALES>>, <<" ", "[", " ">>)

\* Tokens of a generated header part.
HeaderTokens ==
    { kwTOTAL, kwQQ, kwAZ, <<"E","S","T","A","N",".">>, <<"x">> }

\* Largest number of tokens of a generated header part.
MaxHeaderTokens == 4

\* Largest number of numerals of a generated value row.
MaxRowValues == 8

\* The title line of the finished-product table.
txtProductoTitle ==
    <<"P","R","O","D","U","C","T","O"," ","T","E","R","M","I","N","A","D","O","\n">>

\* A value row: its label and k numerals, the first being ValueToken(base + 1).
ValueRow(label, base, k) ==
    Join(<<label>> \o [i \in 1..k |-> ValueToken(base + i)], <<" ">>)

\* The recognised text of the second region: a header line and the three
\* value rows.
ProductoText(header, ke, kh, kt) ==
    header \o <<"\n">>
        \o ValueRow(kwESTANDAR \o <<"/","D","I","A">>, 10, ke) \o <<"\n">>
        \o ValueRow(kwHOY, 20, kh) \o <<"\n">>
        \o ValueRow(kwHASTA, 30, kt)

InitProductoText ==
    /\ source = "image"
    /\ table_kind = "PRODUCTO_TERMINADO"
    /\ \/ \E header \in {txtCanonicalHeader, txtBorderedHeader, txtBracketHeader} :
            \E ke \in 0..MaxRowValues : \E kh \in 0..MaxRowValues : \E kt \in {0, kh} :
                \E title \in {<<>>, txtProductoTitle} :
                    text = title \o ProductoText(header, ke, kh, kt)
       \/ \E len \in 0..MaxHeaderTokens : \E f \in [1..len -> HeaderTokens] :
            text = ProductoText(txtTOTAL_QQ_CRUDA \o <<" ", "[", " ">> \o Join(f, <<" ">>),
                                2, 3, 3)
    /\ df = <<>>
    /\ hoy_indicators = <<>>
    /\ hasta_indicators = <<>>
    /\ producto_indicators = <<>>
    /\ continuacion_indicators = <<>>
    /\ map_pc = "ready"
    /\ SegIdle
    /\ ValIdle
    /\ DrvIdle

\* main, region 1: the text of the second region gives the finished-product
\* group
ParseProductoText ==
    /\ source = "image" /\ table_kind = "PRODUCTO_TERMINADO" /\ map_pc = "ready"
    /\ producto_indicators' = parse_text_based_producto(text)
    /\ map_pc' = "done"
    /\ UNCHANGED <<source, table_kind, df, text, hoy_indicators, hasta_indicators,
                   continuacion_indicators, seg_vars, val_vars, drv_vars>>

NextProductoText == ParseProductoText

SpecProductoText == InitProductoText /\ [][NextProductoText]_vars

-----------------------------------------------------------------------------
(* The two programs that emit the groups: excel_to_json of excel-to-json.py  *)
(* and main of extract_tables.py.                                           *)

\* "Nombre Agrupador" of the four groups; the last one carries an accented O
\* in the source.
nameHOY == "ANALISIS - HOY"

nameHASTA == "ANALISIS - HASTA"

namePRODUCTO == "PRODUCTO TERMINADO (AZUCAR)"

nameCONTINUACION == "PRODUCTO TERMINADO (AZUCAR) - CONTINUACION"

Group(name, indicadores) == [nombre |-> name, indicadores |-> indicadores]

\* Sheets a workbook may hold beside Raw_Data.
SheetNames == {"ANALISIS", "PRODUCTO_TERMINADO", "CONTINUACION"}

\* The sheets a workbook may hold under each name: a full-width sheet with
\* data rows, a narrow sheet, and a sheet without any row.
SheetChoices ==
    [name \in SheetNames |->
        IF name = "PRODUCTO_TERMINADO"
        THEN { Grid(<<ProductoLeadCells[1], ProductoLeadCells[2], ProductoLeadCells[3],
                      ProductoLeadCells[4], ProductoLeadCells[1]>>, 21),
               Grid(<<ProductoLeadCells[3], ProductoLeadCells[4]>>, 12),
               <<>> }
        ELSE { Grid(<<LeadCells[2], LeadCells[3], LeadCells[2], LeadCells[4]>>, 21),
               Grid(<<LeadCells[2], LeadCells[2], LeadCells[2]>>, 12),
               <<>> }]

\* The parse of each sheet, evaluated once for each choice.
AnalisisOfSheet ==
    [g \in SheetChoices["ANALISIS"] |-> parse_analisis_from_df(g)]

ProductoOfSheet ==
    [g \in SheetChoices["PRODUCTO_TERMINADO"] |-> parse_producto_from_df(g)]

ContinuacionOfSheet ==
    [g \in SheetChoices["CONTINUACION"] |-> parse_continuacion_from_df(g)]

\* parse_analisis_from_df raises on the ANALISIS sheet of the workbook
ExcelRaises(wb) ==
    "ANALISIS" \in DOMAIN wb /\ AnalisisOfSheet[wb["ANALISIS"]].raised

\* results of excel_to_json: the groups of the sheets present, in the order
\* of the three "if has_..." blocks
ExcelGroups(wb) ==
    (IF "ANALISIS" \in DOMAIN wb
     THEN <<Group(nameHOY, AnalisisOfSheet[wb["ANALISIS"]].hoy),
            Group(nameHASTA, AnalisisOfSheet[wb["ANALISIS"]].hasta)>>
     ELSE <<>>)
    \o (IF "PRODUCTO_TERMINADO" \in DOMAIN wb
        THEN <<Group(namePRODUCTO, ProductoOfSheet[wb["PRODUCTO_TERMINADO"]])>>
        ELSE <<>>)
    \o (IF "CONTINUACION" \in DOMAIN wb
        THEN <<Group(nameCONTINUACION, ContinuacionOfSheet[wb["CONTINUACION"]])>>
        ELSE <<>>)

\* A contour is a header region when its area is above this one.
MinHeaderArea == 50000

\* Heights (y of the bounding box) at which a page shows a yellow header,
\* each far enough from the top for the crop to start inside the image.
HeaderYs == {100, 400, 700}

\* Pages an image may show: one recognised well, one recognised poorly.
Pages == {1, 2}

\* Largest number of yellow contours of an image.
MaxContours == 4

txtAnalisisRegion ==
    <<"J","u","g","o"," ","M","i","x","t","o"," ","8","5",".","2"," ","1","4",".","1","\n",
      "M","i","e","l"," ","1"," ","2"," ","3"," ","4"," ","5"," ","6"," ","7"," ","8"," ","9">>

txtProductoRegion ==
    <<"P","R","O","D","U","C","T","O"," ","T","E","R","M","I","N","A","D","O","\n",
      "T","O","T","A","L"," ","Q","Q"," ","C","R","U","D","A"," ",
      "Q","Q"," ","P","R","O","D","U","C","I","D","O","S"," ","A","Z","."," ","P","M","R","\n",
      "E","S","T","A","N","D","A","R","/","D","I","A"," ","1"," ","2","\n",
      "H","O","Y"," ","3"," ","4"," ","5","\n",
      "H","A","S","T","A"," ","6"," ","7"," ","8">>

txtContinuacionRegion ==
    <<"D","E","S","C","R","I","P","C","I","O","N"," ","Q","u","i","n","t","a","l","e","s","\n",
      "A","z","u","c","a","r"," ","1"," ","2"," ","3">>

\* pytesseract.image_to_string on the crop below the header at height y
OcrText(pg, y) ==
    IF pg = 1
    THEN (IF y = 100 THEN txtAnalisisRegion
          ELSE IF y = 400 THEN txtProductoRegion ELSE txtContinuacionRegion)
    ELSE (IF y = 100 THEN <<>>
          ELSE IF y = 400 THEN <<"-","-","-","-">> ELSE <<"A","z"," ","1"," ","2">>)

\* The three text mappers on the text of each region, evaluated once.
RegionParse ==
    [pg \in Pages |-> [y \in HeaderYs |->
        [analisis |-> parse_text_based_analisis(OcrText(pg, y)),
         producto |-> parse_text_based_producto(OcrText(pg, y)),
         continuacion |-> parse_text_based_continuacion(OcrText(pg, y))]]]

\* the contours kept as regions: area > 50000
RECURSIVE LargeContours(_)
LargeContours(cs) ==
    IF cs = <<>> THEN <<>>
    ELSE (IF Head(cs).area > MinHeaderArea THEN <<Head(cs)>> ELSE <<>>)
            \o LargeContours(Tail(cs))

\* sorted(..., key=lambda r: r['y']): stable insertion of r into a sorted list
RECURSIVE InsertByY(_, _)
InsertByY(sorted, r) ==
    IF sorted = <<>> THEN <<r>>
    ELSE IF sorted[Len(sorted)].y <= r.y THEN Append(sorted, r)
    ELSE Append(InsertByY(SubSeq(sorted, 1, Len(sorted) - 1), r), sorted[Len(sorted)])

RECURSIVE SortByY(_, _)
SortByY(rs, acc) ==
    IF rs = <<>> THEN acc ELSE SortByY(Tail(rs), InsertByY(acc, Head(rs)))

find_table_regions(cs) == SortByY(LargeContours(cs), <<>>)

\* RegionGroups treating every region after the second as the third table.
RegionGroups_AnyLaterRegion(pg, idx, region) ==
    LET got == RegionParse[pg][region.y]
    IN IF idx = 0
       THEN <<Group(nameHOY, got.analisis.hoy), Group(nameHASTA, got.analisis.hasta)>>
       ELSE IF idx = 1 THEN <<Group(namePRODUCTO, got.producto)>>
       ELSE <<Group(nameCONTINUACION, got.continuacion)>>

\* the groups appended for the region at position idx of table_regions
RegionGroups(pg, idx, region) ==
    LET got == RegionParse[pg][region.y]
    IN IF idx = 0
       THEN <<Group(nameHOY, got.analisis.hoy), Group(nameHASTA, got.analisis.hasta)>>
       ELSE IF idx = 1 THEN <<Group(namePRODUCTO, got.producto)>>
       ELSE IF idx = 2 THEN <<Group(nameCONTINUACION, got.continuacion)>>
       ELSE <<>>

\* the loop "for idx, region in enumerate(table_regions)"
RECURSIVE MainGroups(_, _, _)
MainGroups(pg, regions, idx) ==
    IF idx >= Len(regions) THEN <<>>
    ELSE RegionGroups(pg, idx, regions[idx + 1]) \o MainGroups(pg, regions, idx + 1)

InitExcel ==
    /\ driver = "excel"
    /\ \E present \in SUBSET SheetNames :
            \E wb \in [present -> UNION {SheetChoices[n] : n \in SheetNames}] :
                /\ \A n \in present : wb[n] \in SheetChoices[n]
                /\ workbook = wb
    /\ image_ok = FALSE
    /\ page = 0
    /\ contours = <<>>
    /\ results = <<>>
    /\ warned = FALSE
    /\ exit_code = 0
    /\ drv_pc = "ready"
    /\ CropIdle
    /\ SegIdle
    /\ ValIdle
    /\ MapIdle

InitImage ==
    /\ driver = "image"
    /\ workbook = <<>>
    /\ image_ok \in BOOLEAN
    /\ page \in Pages
    /\ \E len \in 0..MaxContours :
            contours \in [1..len -> [y : HeaderYs,
                                     area : {MinHeaderArea, MinHeaderArea + 1}]]
    /\ image_ok = FALSE => (contours = <<>> /\ page = 1)
    /\ results = <<>>
    /\ warned = FALSE
    /\ exit_code = 0
    /\ drv_pc = "ready"
    /\ CropIdle
    /\ SegIdle
    /\ ValIdle
    /\ MapIdle

\* excel_to_json: the groups are written unless the ANALISIS sheet raises
ExcelToJson ==
    /\ driver = "excel" /\ drv_pc = "ready"
    /\ IF ExcelRaises(workbook)
       THEN /\ results' = <<>>
            /\ exit_code' = 1
            /\ drv_pc' = "raised"
       ELSE /\ results' = ExcelGroups(workbook)
            /\ exit_code' = 0
            /\ drv_pc' = "done"
    /\ UNCHANGED <<driver, workbook, image_ok, page, contours, warned,
                   crop_vars, seg_vars, val_vars, map_vars>>

\* main and the block that calls it: no image, or no group, is an error exit
ExtractTablesMain ==
    /\ driver = "image" /\ drv_pc = "ready"
    /\ IF ~image_ok
       THEN /\ results' = <<>>
            /\ warned' = FALSE
            /\ exit_code' = 1
       ELSE LET table_regions == find_table_regions(contours)
                built == MainGroups(page, table_regions, 0)
            IN /\ warned' = (Len(table_regions) < 3)
               /\ results' = built
               /\ exit_code' = IF built # <<>> THEN 0 ELSE 1
    /\ drv_pc' = "done"
    /\ UNCHANGED <<driver, workbook, image_ok, page, contours,
                   crop_vars, seg_vars, val_vars, map_vars>>

InitDriver == InitExcel \/ InitImage

NextDriver == ExcelToJson \/ ExtractTablesMain

SpecDriver == InitDriver /\ [][NextDriver]_vars

Min(a, b) == IF a < b THEN a ELSE b

Max(a, b) == IF a > b THEN a ELSE b

\* extract_table_area: the box image[y:y+h, x:x+w] cut below a header
extract_table_area(shape, region, expand) ==
    LET x == Max(0, region.x - 20)
        y == region.y - 5
        x_end == region.x + region.w + 20
        w == Min(shape.width, x_end) - x
        h == Min(shape.height - y, expand + 50)
    IN Box(x, y, w, h)

\* Sizes of the images, and left columns, top rows, widths and heights of the
\* header regions: headers at the edges of the image and away from them,
\* images shorter and taller than the crop.
ImageHeights == {300, 400, 500, 1000}

ImageWidths == {200, 640}

HeaderLefts == {0, 10, 19, 20, 21, 100}

HeaderTops == {0, 3, 4, 5, 6, 100, 250}

HeaderWidths == {100, 180, 540, 640}

HeaderHeights == {30, 50}

\* expansion given by main: 450 for the first and third regions, 350 for the
\* second
Expansions == {350, 450}

\* main: one header region of an image, before its table area is cut
InitCrop ==
    /\ driver = "crop"
    /\ \E ih \in ImageHeights : \E iw \in ImageWidths :
            image_shape = [height |-> ih, width |-> iw]
    /\ \E x \in HeaderLefts : \E y \in HeaderTops :
         \E w \in HeaderWidths : \E h \in HeaderHeights :
            /\ x + w <= image_shape.width
            /\ y + h <= image_shape.height
            /\ header_region = Box(x, y, w, h)
    /\ expansion \in Expansions
    /\ table_img = Box(0, 0, 0, 0)
    /\ workbook = <<>>
    /\ image_ok = TRUE
    /\ page = 0
    /\ contours = <<>>
    /\ results = <<>>
    /\ warned = FALSE
    /\ exit_code = 0
    /\ drv_pc = "ready"
    /\ SegIdle
    /\ ValIdle
    /\ MapIdle

\* main: table_img = extract_table_area(image, region, expansion=...)
ExtractTableArea ==
    /\ driver = "crop" /\ drv_pc = "ready"
    /\ table_img' = extract_table_area(image_shape, header_region, expansion)
    /\ drv_pc' = "done"
    /\ UNCHANGED <<driver, workbook, image_ok, page, contours, results, warned,
                   exit_code, image_shape, header_region, expansion,
                   seg_vars, val_vars, map_vars>>

NextCrop == ExtractTableArea

SpecCrop == InitCrop /\ [][NextCrop]_vars

-----------------------------------------------------------------------------
(* extract_pdf_to_excel.py: the keyword-driven segmenter of                 *)
(* extract_pdf_to_excel.                                                    *)

\* Leading cells of the rows the keyword tests have to tell apart: a product
\* name, the title of the analysis table, the title of the finished-product
\* table and the title of its continuation.
KeywordLeads ==
    << PyStr(txtJugo),
       PyStr(<<"A","n","a","l","i","s","i","s">>),
       PyStr(<<"P","r","o","d","u","c","t","o"," ","T","e","r","m","i","n","a","d","o">>),
       PyStr(<<"P","R","O","D","U","C","T","O"," ","T","E","R","M","I","N","A","D","O",
               " ","-"," ","C","O","N","T","I","N","U","A","C","I","OACUTE","N">>) >>

\* Largest number of rows of a table given to the keyword tests.
MaxKeywordRows == 6

\* The ANALISIS title is only accepted at an index below this one.
AnalisisTitleRows == 5

\* Row i of a table: the leading cell and a cell with the row number; the
\* leading cell of every other data row is empty.
KeywordRow(lead, i) ==
    << IF lead = 1 /\ i % 2 = 0 THEN PyNone ELSE KeywordLeads[lead],
       PyStr(DigitsOf(i)) >>

KeywordTable(len, f) == [i \in 1..len |-> KeywordRow(f[i], i)]

\* "ANALISIS" in first_col.upper()
IsAnalisisKeyword(row) == Contains(Upper(FirstCol(row)), kwANALISIS)

\* "PRODUCTO TERMINADO" in first_col.upper() and neither spelling of
\* CONTINUACION in it
IsProductoKeyword(row) ==
    LET up == Upper(FirstCol(row))
    IN /\ Contains(up, kwPRODUCTO \o <<" ">> \o kwTERMINADO)
       /\ ~Contains(up, kwCONTINUACION_ACENTO)
       /\ ~Contains(up, kwCONTINUACION)

\* "CONTINUACIÓN" in first_col.upper() or "CONTINUACION" in first_col.upper()
IsContinuacionKeyword(row) ==
    LET up == Upper(FirstCol(row))
    IN Contains(up, kwCONTINUACION_ACENTO) \/ Contains(up, kwCONTINUACION)

\* The three tests evaluated once for each leading cell of KeywordLeads.
AnalisisLeads == {k \in 1..Len(KeywordLeads) : IsAnalisisKeyword(<<KeywordLeads[k]>>)}

ProductoLeads == {k \in 1..Len(KeywordLeads) : IsProductoKeyword(<<KeywordLeads[k]>>)}

ContinuacionLeads ==
    {k \in 1..Len(KeywordLeads) : IsContinuacionKeyword(<<KeywordLeads[k]>>)}

IsKeywordLead(row) == \E k \in 1..Len(KeywordLeads) : row[1] = KeywordLeads[k]

IsAnalisisTitle(row) ==
    IF IsKeywordLead(row) THEN \E k \in AnalisisLeads : row[1] = KeywordLeads[k]
    ELSE IsAnalisisKeyword(row)

IsProductoTitle(row) ==
    IF IsKeywordLead(row) THEN \E k \in ProductoLeads : row[1] = KeywordLeads[k]
    ELSE IsProductoKeyword(row)

IsContinuacionTitle(row) ==
    IF IsKeywordLead(row) THEN \E k \in ContinuacionLeads : row[1] = KeywordLeads[k]
    ELSE IsContinuacionKeyword(row)

\* current_section after row i (0-based), given the one before it
SectionOfRow(row, i, current_section) ==
    IF IsAnalisisTitle(row) /\ i < AnalisisTitleRows
    THEN "ANALISIS"
    ELSE IF IsProductoTitle(row) THEN "PRODUCTO"
    ELSE IF IsContinuacionTitle(row) THEN "CONTINUACION"
    ELSE current_section

\* The loop over the rows: every row goes to the list of the section it is
\* in, and a row met while current_section is None goes to no list.
RECURSIVE KeywordLoop(_, _, _, _)
KeywordLoop(table, i, current_section, sec) ==
    IF i >= Len(table) THEN sec
    ELSE LET row == table[i + 1]
             s == SectionOfRow(row, i, current_section)
         IN KeywordLoop(table, i + 1, s,
                IF s = "ANALISIS"
                THEN [sec EXCEPT !.analisis = Append(@, row)]
                ELSE IF s = "PRODUCTO"
                THEN [sec EXCEPT !.producto = Append(@, row)]
                ELSE IF s = "CONTINUACION"
                THEN [sec EXCEPT !.continuacion = Append(@, row)]
                ELSE sec)

InitKeywordSegment ==
    /\ \E len \in 0..MaxKeywordRows :
         \E f \in [1..len -> 1..Len(KeywordLeads)] :
            main_table = KeywordTable(len, f)
    /\ producto_start = NoneIdx
    /\ continuacion_start = NoneIdx
    /\ analisis_data = <<>>
    /\ producto_data = <<>>
    /\ continuacion_data = <<>>
    /\ sheet_names = <<>>
    /\ seg_pc = "ready"
    /\ ValIdle
    /\ MapIdle
    /\ DrvIdle

KeywordSegment ==
    /\ seg_pc = "ready"
    /\ LET sec == KeywordLoop(main_table, 0, "None",
                              [analisis |-> <<>>, producto |-> <<>>,
                               continuacion |-> <<>>])
       IN /\ analisis_data' = sec.analisis
          /\ producto_data' = sec.producto
          /\ continuacion_data' = sec.continuacion
          /\ sheet_names' = SheetsWritten(sec)
    /\ seg_pc' = "done"
    /\ UNCHANGED <<main_table, producto_start, continuacion_start,
                   val_vars, map_vars, drv_vars>>

NextKeywordSegment == KeywordSegment

SpecKeywordSegment == InitKeywordSegment /\ [][NextKeywordSegment]_vars

-----------------------------------------------------------------------------
(* extract_pdf_to_excel.py: parse_producto_from_df, the finished-product    *)
(* mapper that looks for the value columns of the ESTANDAR row.             *)

\* Upper bound of the row indices searched for the header row.
HeaderSearchRows == 5

\* The last of the row indices that passed a test of the scan, or None.
LastRowIdx(hits) ==
    IF hits = {} THEN NoneIdx ELSE CHOOSE i \in hits : \A j \in hits : j <= i

\* if "ESTANDAR" in first_val
IsEstandarRow(row) == Contains(FirstVal(row), kwESTANDAR)

\* elif first_val == "HOY"
IsHoyRow(row) == ~IsEstandarRow(row) /\ FirstVal(row) = kwHOY

\* elif first_val == "HASTA"
IsHastaRow(row) == ~IsEstandarRow(row) /\ FirstVal(row) = kwHASTA

\* the scan over every row: each index is the one of the last row that
\* passes its test
ColumnScan(grid) ==
    [estandar_row_idx |->
        LastRowIdx({i \in 0..(Len(grid) - 1) : IsEstandarRow(grid[i + 1])}),
     hoy_row_idx |->
        LastRowIdx({i \in 0..(Len(grid) - 1) : IsHoyRow(grid[i + 1])}),
     hasta_row_idx |->
        LastRowIdx({i \in 0..(Len(grid) - 1) : IsHastaRow(grid[i + 1])})]

\* row_str = " ".join([str(v) for v in row if pd.notna(v)])
RowStr(row) ==
    Join([k \in 1..Len(SelectSeq(row, LAMBDA c : c.kind # "None")) |->
            SelectSeq(row, LAMBDA c : c.kind # "None")[k].s], <<" ">>)

\* "TOTAL" in row_str.upper() and "QQ" in ... and "CRUDA" in ...
IsColumnHeaderRow(row) ==
    LET up == Upper(RowStr(row))
    IN Contains(up, kwTOTAL) /\ Contains(up, kwQQ) /\ Contains(up, kwCRUDA)

\* header_row_idx: the first header row among the first rows, or None
header_row_idx(grid) ==
    LET hits == {i \in 0..(Len(grid) - 1) :
                    i < HeaderSearchRows /\ IsColumnHeaderRow(grid[i + 1])}
    IN IF hits = {} THEN NoneIdx ELSE CHOOSE i \in hits : \A j \in hits : i <= j

\* any(c.isdigit() for c in val)
AnyDigit(t) == \E i \in 1..Len(t) : IsDigit(t[i])

\* the test of one cell of the ESTANDAR row in the loop of value_cols
IsValueCell(c) ==
    /\ c.kind # "None"
    /\ LET v == Strip(CellStr(c))
       IN v # <<>> /\ v # kwNan /\ AnyDigit(v)

\* value_cols: empty when estandar_row_idx is 0, which Python takes as false
value_cols(grid, est) ==
    IF ~Truthy(est) THEN <<>>
    ELSE LET row == grid[est + 1]
             cols == {c \in 0..(Len(row) - 1) : IsValueCell(row[c + 1])}
         IN [k \in 1..Cardinality(cols) |->
                CHOOSE c \in cols : Cardinality({d \in cols : d < c}) = k - 1]

\* parse_value(df.iloc[idx, col]) if idx else None
ValueOrNone(grid, idx, col) ==
    IF Truthy(idx) THEN parse_value(grid[idx + 1][col + 1]) ELSE PyNone

\* The Indicator of the i-th description (0-based).
column_indicator(grid, found, cols, i) ==
    MakeDict(ProductoKeys,
        IF i < Len(cols)
        THEN <<PyStr(column_mapping[i + 1][1]),
               parse_value(grid[found.estandar_row_idx + 1][cols[i + 1] + 1]),
               ValueOrNone(grid, found.hoy_row_idx, cols[i + 1]),
               ValueOrNone(grid, found.hasta_row_idx, cols[i + 1])>>
        ELSE <<PyStr(column_mapping[i + 1][1]), PyNone, PyNone, PyNone>>)

pdf_parse_producto_from_df(grid) ==
    LET found == ColumnScan(grid)
    IN IF header_row_idx(grid) # NoneIdx /\ found.estandar_row_idx # NoneIdx
       THEN LET cols == value_cols(grid, found.estandar_row_idx)
            IN [i \in 1..Len(column_mapping) |->
                    column_indicator(grid, found, cols, i - 1)]
       ELSE <<>>

\* Leading cells of the rows of a PRODUCTO_TERMINADO sheet: a data row, the
\* header row, and the three marker rows.
ColumnLeadCells ==
    << PyStr(txtJugo),
       PyStr(<<"T","o","t","a","l"," ","Q","Q"," ","C","r","u","d","a">>),
       PyStr(<<"E","s","t","a","n","d","a","r","/","D","i","a">>),
       PyStr(<<" ","h","o","y">>),
       PyStr(kwHASTA) >>

\* Widths of the sheets: fewer value columns than metrics, and enough.
ColumnGridWidths == {4, 13}

\* Largest number of rows of a sheet.
MaxColumnRows == 6

\* Row indices at which a sheet may hold any row of ColumnLeadCells; a later
\* row is a data row or a header row.
ColumnMarkerSlots == 0..3

InitColumnProducto ==
    /\ source = "pdf_excel"
    /\ table_kind = "PRODUCTO_TERMINADO"
    /\ \E len \in 0..MaxColumnRows : \E w \in ColumnGridWidths :
         \E f \in [1..len -> 1..Len(ColumnLeadCells)] :
            /\ \A i \in 1..len : (i - 1) \notin ColumnMarkerSlots => f[i] \in {1, 2}
            /\ df = Grid([i \in 1..len |-> ColumnLeadCells[f[i]]], w)
    /\ text = <<>>
    /\ hoy_indicators = <<>>
    /\ hasta_indicators = <<>>
    /\ producto_indicators = <<>>
    /\ continuacion_indicators = <<>>
    /\ map_pc = "ready"
    /\ SegIdle
    /\ ValIdle
    /\ DrvIdle

ParseColumnProducto ==
    /\ source = "pdf_excel" /\ table_kind = "PRODUCTO_TERMINADO" /\ map_pc = "ready"
    /\ producto_indicators' = pdf_parse_producto_from_df(df)
    /\ map_pc' = "done"
    /\ UNCHANGED <<source, table_kind, df, text, hoy_indicators, hasta_indicators,
                   continuacion_indicators, seg_vars, val_vars,
                   drv_vars>>

NextColumnProducto == ParseColumnProducto

SpecColumnProducto == InitColumnProducto /\ [][NextColumnProducto]_vars

-----------------------------------------------------------------------------
(* Properties of the segmenter.                                             *)

\* C1: once the table is split, ANALISIS, PRODUCTO_TERMINADO and CONTINUACION
\* are consecutive runs in that order whose concatenation is the input table:
\* no row is lost, duplicated or reordered, so every ANALISIS row index is
\* below every PRODUCTO_TERMINADO index, which is below every CONTINUACION
\* index.
C1_SectionsPartitionTable ==
    seg_pc = "done" =>
        LET la == Len(analisis_data)
            lp == Len(producto_data)
            lc == Len(continuacion_data)
        IN /\ la + lp + lc = Len(main_table)
           /\ \A i \in 1..la : analisis_data[i] = main_table[i]
           /\ \A j \in 1..lp : producto_data[j] = main_table[la + j]
           /\ \A k \in 1..lc : continuacion_data[k] = main_table[la + lp + k]

\* A table with a title row before a continuation header, split in three.
C1_Witness ==
    /\ seg_pc = "done"
    /\ Truthy(producto_start)
    /\ continuacion_start > producto_start
    /\ analisis_data # <<>>
    /\ producto_data # <<>>
    /\ continuacion_data # <<>>

\* C9: a later section never appears without its predecessors: CONTINUACION
\* non-empty implies PRODUCTO_TERMINADO non-empty, which implies ANALISIS
\* non-empty, so the section sheets written are a prefix of ANALISIS,
\* PRODUCTO_TERMINADO, CONTINUACION.
C9_NoSectionWithoutPredecessor ==
    seg_pc = "done" =>
        /\ continuacion_data # <<>> => producto_data # <<>>
        /\ producto_data # <<>> => analisis_data # <<>>
        /\ sheet_names \in { <<"Raw_Data">>,
                              <<"Raw_Data", "ANALISIS">>,
                              <<"Raw_Data", "ANALISIS", "PRODUCTO_TERMINADO">>,
                              <<"Raw_Data", "ANALISIS", "PRODUCTO_TERMINADO",
                                "CONTINUACION">> }

\* The title row is the first row of the table and a continuation header
\* follows it: the case in which a section could lose its predecessor.
C9_Witness ==
    /\ seg_pc = "done"
    /\ producto_start = 0
    /\ continuacion_start # NoneIdx
    /\ analisis_data = main_table

\* C10: when no row's cleaned leading cell contains both PRODUCTO and
\* TERMINADO, ANALISIS holds all rows in order and the other two sections
\* are empty, also when a DESCRIPCION row with Quintales is present.
C10_NoTitleAllAnalisis ==
    (seg_pc = "done"
        /\ \A i \in 1..Len(main_table) : ~IsProductoText(main_table[i]))
    => /\ analisis_data = main_table
       /\ producto_data = <<>>
       /\ continuacion_data = <<>>

\* No title row, and the scan stopped at a continuation header.
C10_Witness ==
    /\ seg_pc = "done"
    /\ \A i \in 1..Len(main_table) : ~IsProductoText(main_table[i])
    /\ continuacion_start # NoneIdx
    /\ Len(main_table) > continuacion_start + 1

\* The row indices (zero-based) whose cleaned leading cell is a title.
TitleIndices == {i \in 0..(Len(main_table) - 1) : IsProductoRow(main_table[i + 1])}

\* The row indices above p whose leading cell contains DESCRIPCION and whose
\* row contains Quintales.
HeaderIndicesAfter(p) ==
    {c \in (p + 1)..(Len(main_table) - 1) : main_table[c + 1] \in ContinuacionRows}

\* the smallest element of a non-empty set of indices
MinIndex(S) == CHOOSE i \in S : \A j \in S : i <= j

\* C16: the start of the finished-product section is the smallest row index
\* whose leading cell, without asterisks and spaces and uppercased, contains
\* PRODUCTO and TERMINADO, also when several rows carry the title.
C16_ProductoStartIsFirstTitle ==
    (seg_pc = "done" /\ TitleIndices # {}) => producto_start = MinIndex(TitleIndices)

\* C17: with the finished-product start at p, in a table of any length, the
\* start of the continuation is the smallest index above p whose leading cell
\* contains DESCRIPCION and whose row contains Quintales, and there is none
\* when no such row follows p.
C17_ContinuacionStartIsFirstHeaderAfterTitle ==
    (seg_pc = "done" /\ producto_start # NoneIdx) =>
        continuacion_start =
            IF HeaderIndicesAfter(producto_start) = {} THEN NoneIdx
            ELSE MinIndex(HeaderIndicesAfter(producto_start))

\* C18: a title found at p, p = 0 included, and no continuation start found:
\* PRODUCTO_TERMINADO is rows p to the end and ANALISIS is rows 0 to p - 1.
C18_TitleOnlySplitsAtTitle ==
    (seg_pc = "done" /\ producto_start # NoneIdx /\ continuacion_start = NoneIdx) =>
        /\ producto_data = Slice(main_table, producto_start, Len(main_table))
        /\ analisis_data = Slice(main_table, 0, producto_start)
        /\ continuacion_data = <<>>

-----------------------------------------------------------------------------
(* Properties of the mappers.                                               *)

\* The DESCRIPCION rule: at least two characters, not only separators.
ValidDescripcion(d) == Len(d) >= 2 /\ ~AllSeparators(d)

\* The descriptions of a list of Indicators are all valid.
AllValid(indicators) ==
    \A i \in 1..Len(indicators) : ValidDescripcion(indicators[i]["DESCRIPCION"].s)

\* The rows of the sheet whose stripped leading cell is a valid DESCRIPCION.
ValidRows == {r \in 1..Len(df) : ValidDescripcion(Descripcion(df[r]))}

\* The lines of the analysis text that yield a pair, in order.
RECURSIVE EmittedLines(_)
EmittedLines(lines) ==
    IF lines = <<>> THEN <<>>
    ELSE IF AnalisisLine(Head(lines)).emit
    THEN <<AnalisisLine(Head(lines))>> \o EmittedLines(Tail(lines))
    ELSE EmittedLines(Tail(lines))

\* The numeric parse of parse_number succeeds on a classified value.
NumericOk(tok) ==
    LET clean == RemoveChar(RemoveChar(Strip(tok), ","), " ")
    IN IF Contains(clean, <<".">>) THEN FloatOk(clean) ELSE IntOk(clean)

\* The field that receives the classified value at position j of a line.
AnalisisField(k, j) ==
    IF j < 3 THEN hoy_indicators[k][HoyKeys[j + 2]]
    ELSE IF j < 6 THEN hasta_indicators[k][HastaKeys[j - 1]]
    ELSE hoy_indicators[k][HoyKeys[j - 1]]

\* C3: in the text analysis mapper a token classified as a value whose numeric
\* parse fails (digits with two decimal points) is emitted as a string in the
\* field it is assigned to, never as null.
C3_UnparsedTokenKeptAsString ==
    (source = "image" /\ table_kind = "ANALISIS" /\ map_pc = "done") =>
        LET emitted == EmittedLines(TextLines(text))
        IN /\ Len(hoy_indicators) = Len(emitted)
           /\ \A k \in 1..Len(emitted) :
                \A j \in 0..8 :
                    (j < Len(emitted[k].values) /\ ~NumericOk(emitted[k].values[j + 1]))
                    => AnalisisField(k, j).kind = "str"

\* C4: every Indicator of the structured analysis and continuation mappers
\* has a DESCRIPCION of at least two characters that is not made of separator
\* characters only, and a row whose leading cell breaks the rule yields no
\* Indicator: no list is longer than the number of rows with a valid cell.
C4_StructuredDescripcionValid ==
    (source = "excel" /\ map_pc = "done") =>
        /\ AllValid(hoy_indicators)
        /\ AllValid(hasta_indicators)
        /\ AllValid(continuacion_indicators)
        /\ Len(hoy_indicators) <= Cardinality(ValidRows)
        /\ Len(hasta_indicators) <= Cardinality(ValidRows)
        /\ Len(continuacion_indicators) <= Cardinality(ValidRows)

\* A sheet with a separator row among the data rows and an Indicator emitted.
C4_Witness ==
    /\ source = "excel" /\ map_pc = "done"
    /\ \E r \in 2..Len(df) : Descripcion(df[r]) = <<"-","-","-","-">>
    /\ \/ (table_kind = "CONTINUACION" /\ continuacion_indicators # <<>>)
       \/ (table_kind = "ANALISIS" /\ hoy_indicators # <<>>
            /\ Descripcion(df[3]) = <<"-","-","-","-">>)

\* C5: every Indicator of the text mappers has a DESCRIPCION of at least two
\* characters that is not made of separator characters only.
C5_TextDescripcionValid ==
    (source = "image" /\ map_pc = "done") =>
        /\ AllValid(hoy_indicators)
        /\ AllValid(hasta_indicators)
        /\ AllValid(continuacion_indicators)

\* C6: the HOY and HASTA lists of the analysis mapping have the same length,
\* and at every position the two Indicators carry the same DESCRIPCION and
\* are built from one row of the sheet, or one line of the text.
C6_HoyHastaPaired ==
    (table_kind = "ANALISIS" /\ map_pc \in {"done", "raised"}) =>
        /\ Len(hoy_indicators) = Len(hasta_indicators)
        /\ \A i \in 1..Len(hoy_indicators) :
            /\ i <= Len(hasta_indicators)
            /\ hoy_indicators[i]["DESCRIPCION"] = hasta_indicators[i]["DESCRIPCION"]
            /\ source = "excel" =>
                \E r \in 1..Len(df) :
                    /\ hoy_indicators[i] = hoy_indicator(Descripcion(df[r]), df[r])
                    /\ hasta_indicators[i]["BRIX"] = parse_value(df[r][HastaColumns[1] + 1])
            /\ source = "image" =>
                \E ln \in {AnalisisLine(TextLines(text)[n]) : n \in 1..Len(TextLines(text))} :
                    /\ hoy_indicators[i] = text_hoy_indicator(ln.description, ln.values)
                    /\ hasta_indicators[i] = text_hasta_indicator(ln.description, ln.values)

\* A sheet whose rows gave two pairs, the leading cell carrying blanks.
C6_Witness ==
    /\ source = "excel" /\ map_pc = "done"
    /\ Len(hoy_indicators) >= 2
    /\ Len(hasta_indicators) >= 2
    /\ \E r \in 1..Len(df) : CellStr(df[r][1]) # Descripcion(df[r])

\* No row's leading cell, stripped and uppercased, contains ESTANDAR.
NoEstandarRow == \A r \in 1..Len(df) : ~Contains(FirstVal(df[r]), kwESTANDAR)

\* No row's leading cell, stripped and uppercased, is HOY.
NoHoyRow == \A r \in 1..Len(df) : FirstVal(df[r]) # kwHOY

\* No HASTA row below an HOY row.
NoHastaAfterHoy ==
    ~\E r1, r2 \in 1..Len(df) :
        r1 < r2 /\ FirstVal(df[r1]) = kwHOY /\ FirstVal(df[r2]) = kwHASTA

\* C7: the structured finished-product mapper returns the empty list whenever
\* there is no ESTANDAR row, no HOY row, or no HASTA row after an HOY row
\* (leading cells compared stripped and uppercased), whatever the other rows
\* are; it returns no partial result and does not raise.
C7_ProductoEmptyWhenRowMissing ==
    (source = "excel" /\ table_kind = "PRODUCTO_TERMINADO" /\ map_pc # "ready") =>
        /\ map_pc = "done"
        /\ (NoEstandarRow \/ NoHoyRow \/ NoHastaAfterHoy) => producto_indicators = <<>>

\* A sheet of at least five rows with HOY and HASTA rows and no ESTANDAR row.
C7_Witness ==
    /\ source = "excel" /\ table_kind = "PRODUCTO_TERMINADO" /\ map_pc = "done"
    /\ Len(df) >= ProductoMinRows
    /\ NoEstandarRow /\ ~NoHoyRow /\ ~NoHastaAfterHoy
    /\ producto_indicators = <<>>

\* The keys of every Indicator of a list are exactly the given keys.
AllKeys(indicators, keys) ==
    \A i \in 1..Len(indicators) :
        DOMAIN indicators[i] = {keys[k] : k \in 1..Len(keys)}

\* C8: no mapper fails, and every Indicator carries the full field set of its
\* group: a column beyond the width of the grid, or a position beyond the
\* classified values, gives a null field.
C8_FullFieldSetNoError ==
    /\ map_pc # "raised"
    /\ map_pc = "done" =>
        /\ AllKeys(hoy_indicators, HoyKeys)
        /\ AllKeys(hasta_indicators, HastaKeys)
        /\ AllKeys(producto_indicators, ProductoKeys)
        /\ AllKeys(continuacion_indicators, ContinuacionKeys)

\* The normalized cell of a row at a zero-based column, null beyond the width.
NormCell(row, c) == IF c < Len(row) THEN parse_value(row[c + 1]) ELSE PyNone

\* The rows first..last of the sheet (counted from 1) whose stripped leading
\* cell is a valid DESCRIPCION, in row order.
RECURSIVE ValidRowsFrom(_, _)
ValidRowsFrom(first, last) ==
    IF first > last THEN <<>>
    ELSE (IF ValidDescripcion(Descripcion(df[first])) THEN <<first>> ELSE <<>>)
            \o ValidRowsFrom(first + 1, last)

\* The last row before the first title row of the sheet, or the last row.
LastAnalisisRow ==
    IF \E r \in 1..Len(df) : IsTituloProducto(df[r])
    THEN (CHOOSE r \in 1..Len(df) :
            IsTituloProducto(df[r]) /\ \A q \in 1..(r - 1) : ~IsTituloProducto(df[q])) - 1
    ELSE Len(df)

\* The HOY Indicator the claim gives for a row.
ExpectedHoy(row) ==
    ("DESCRIPCION" :> PyStr(Descripcion(row))) @@ ("BRIX" :> NormCell(row, 3))
        @@ ("SAC" :> NormCell(row, 4)) @@ ("PZA" :> NormCell(row, 7))
        @@ ("COLOR" :> NormCell(row, 16)) @@ ("PH" :> NormCell(row, 18))
        @@ ("GR" :> NormCell(row, 20))

\* The HASTA Indicator the claim gives for a row.
ExpectedHasta(row) ==
    ("DESCRIPCION" :> PyStr(Descripcion(row))) @@ ("BRIX" :> NormCell(row, 9))
        @@ ("SAC" :> NormCell(row, 11)) @@ ("PZA" :> NormCell(row, 14))

\* C13: the structured analysis mapper emits nothing for the first two rows
\* of the sheet and, for every later row before the first title row whose
\* DESCRIPCION is valid, in row order, one HOY Indicator read at columns 3, 4,
\* 7, 16, 18, 20 and one HASTA Indicator read at columns 9, 11, 14, each cell
\* through the value normalizer.
C13_AnalisisRowsMapped ==
    (source = "excel" /\ table_kind = "ANALISIS" /\ map_pc # "ready") =>
        LET rows == ValidRowsFrom(3, LastAnalisisRow)
        IN /\ map_pc = "done"
           /\ hoy_indicators = [k \in 1..Len(rows) |-> ExpectedHoy(df[rows[k]])]
           /\ hasta_indicators = [k \in 1..Len(rows) |-> ExpectedHasta(df[rows[k]])]

\* The HASTA row the scan accepts: the first HASTA row below an HOY row.
HastaRow ==
    CHOOSE r \in 1..Len(df) :
        /\ FirstVal(df[r]) = kwHASTA
        /\ \E h \in 1..(r - 1) : FirstVal(df[h]) = kwHOY
        /\ \A q \in 1..(r - 1) :
                ~(FirstVal(df[q]) = kwHASTA /\ \E h \in 1..(q - 1) : FirstVal(df[h]) = kwHOY)

\* The last HOY row above the accepted HASTA row.
HoyRow ==
    CHOOSE r \in 1..(HastaRow - 1) :
        /\ FirstVal(df[r]) = kwHOY
        /\ \A q \in (r + 1)..(HastaRow - 1) : FirstVal(df[q]) # kwHOY

\* The last ESTANDAR row above the accepted HASTA row.
EstandarRow ==
    CHOOSE r \in 1..(HastaRow - 1) :
        /\ Contains(FirstVal(df[r]), kwESTANDAR)
        /\ \A q \in (r + 1)..(HastaRow - 1) : ~Contains(FirstVal(df[q]), kwESTANDAR)

\* The mapper scans the sheet and its scan finds the three rows.
LocatesThreeRows ==
    /\ Len(df) >= ProductoMinRows
    /\ ~NoHastaAfterHoy
    /\ \E r \in 1..(HastaRow - 1) : Contains(FirstVal(df[r]), kwESTANDAR)

\* The seven metric names and their columns, in the order of the claim.
ExpectedMetrics ==
    << <<txtTOTAL_QQ_CRUDA, 1>>, <<txtTOTAL_QQ_ESTAN, 2>>, <<txtTOTAL_QQ_REFIN, 5>>,
       <<txtQQ_PRODUCIDOS, 8>>, <<txtAZ_EQUIV_MIEL, 11>>, <<txtAZ_PMR, 14>>,
       <<txtTOTAL_QUINTALES, 17>> >>

\* C19: when the structured finished-product mapper locates the ESTANDAR row,
\* the HOY row and a HASTA row below it, it emits exactly seven Indicators,
\* TOTAL QQ CRUDA, TOTAL QQ ESTAN., TOTAL QQ REFIN., QQ PRODUCIDOS,
\* AZ. EQUIV. (MIEL), AZ. PMR, TOTAL QUINTALES, read at columns 1, 2, 5, 8,
\* 11, 14, 17: each field is the normalized cell of the located row at that
\* column, null when the column is beyond the width of the sheet.
C19_SevenMetricsFromLocatedRows ==
    (source = "excel" /\ table_kind = "PRODUCTO_TERMINADO" /\ map_pc = "done"
        /\ LocatesThreeRows) =>
        producto_indicators =
            [i \in 1..7 |->
                ("DESCRIPCION" :> PyStr(ExpectedMetrics[i][1]))
                    @@ ("ESTANDAR/DIA" :> NormCell(df[EstandarRow], ExpectedMetrics[i][2]))
                    @@ ("HOY" :> NormCell(df[HoyRow], ExpectedMetrics[i][2]))
                    @@ ("HASTA" :> NormCell(df[HastaRow], ExpectedMetrics[i][2]))]

\* A sheet narrower than the last metric columns, with two ESTANDAR rows above
\* the HASTA row, gave seven Indicators, the last one with null fields.
C19_Witness ==
    /\ source = "excel" /\ table_kind = "PRODUCTO_TERMINADO" /\ map_pc = "done"
    /\ LocatesThreeRows
    /\ Len(df[1]) < 18
    /\ Cardinality({r \in 1..Len(df) : Contains(FirstVal(df[r]), kwESTANDAR)}) = 2
    /\ Len(producto_indicators) = 7
    /\ producto_indicators[7]["HOY"] = PyNone
    /\ \E i \in 1..7 : producto_indicators[i]["HOY"].kind = "float"

\* The continuation Indicator the claim gives for a row.
ExpectedContinuacion(row) ==
    ("DESCRIPCION" :> PyStr(Descripcion(row))) @@ ("Quintales" :> NormCell(row, 2))
        @@ ("% HUM." :> NormCell(row, 4)) @@ ("% CEN." :> NormCell(row, 6))
        @@ ("% POL." :> NormCell(row, 8)) @@ ("COLOR" :> NormCell(row, 9))
        @@ ("Mg/kg Vit.\"A\"" :> NormCell(row, 10)) @@ ("T. GRANO" :> NormCell(row, 11))
        @@ ("% C.V" :> NormCell(row, 13)) @@ ("FS" :> NormCell(row, 14))
        @@ ("TEMP. C." :> NormCell(row, 15)) @@ ("SED." :> NormCell(row, 16))

\* The elements of a sequence of row numbers whose DESCRIPCION is not nan.
RECURSIVE WithoutNanRows(_)
WithoutNanRows(rows) ==
    IF rows = <<>> THEN <<>>
    ELSE (IF Descripcion(df[Head(rows)]) = kwNan THEN <<>> ELSE <<Head(rows)>>)
            \o WithoutNanRows(Tail(rows))

\* C20, as stated: the structured continuation mapper emits nothing for row 0
\* and, for every later row with a valid DESCRIPCION, in row order, exactly
\* one Indicator whose eleven fields are the normalized cells at columns 2, 4,
\* 6, 8, 9, 10, 11, 13, 14, 15, 16; other rows emit nothing.
C20_ContinuacionRowsMapped ==
    (source = "excel" /\ table_kind = "CONTINUACION" /\ map_pc = "done") =>
        LET rows == ValidRowsFrom(2, Len(df))
        IN continuacion_indicators =
                [k \in 1..Len(rows) |-> ExpectedContinuacion(df[rows[k]])]

\* C20, amended: the same for every later row whose DESCRIPCION is valid and
\* is not the text nan; a row whose stripped leading cell is nan emits
\* nothing.
C20_ContinuacionRowsMappedExceptNan ==
    (source = "excel" /\ table_kind = "CONTINUACION" /\ map_pc = "done") =>
        LET rows == WithoutNanRows(ValidRowsFrom(2, Len(df)))
        IN continuacion_indicators =
                [k \in 1..Len(rows) |-> ExpectedContinuacion(df[rows[k]])]

\* A sheet whose header row has a valid leading cell, with a nan row and a
\* data row below it, gave one Indicator.
C20_Witness ==
    /\ source = "excel" /\ table_kind = "CONTINUACION" /\ map_pc = "done"
    /\ Len(df) >= 3
    /\ ValidDescripcion(Descripcion(df[1]))
    /\ \E r \in 2..Len(df) : Descripcion(df[r]) = kwNan
    /\ \E r \in 2..Len(df) : Descripcion(df[r]) # kwNan /\ ValidDescripcion(Descripcion(df[r]))
    /\ Len(continuacion_indicators) = 1

\* The names of the groups of a list, in order.
GroupNames(groups) == [i \in 1..Len(groups) |-> groups[i].nombre]

\* The heights of the contours above the area threshold, as a set.
LargeYs == {contours[i].y : i \in {j \in 1..Len(contours) : contours[j].area > MinHeaderArea}}

\* The number of contours above the area threshold.
RegionCount == Cardinality({j \in 1..Len(contours) : contours[j].area > MinHeaderArea})

\* The height of the k-th region from the top (k = 1, 2) of at most two.
RegionY(k) ==
    LET top == CHOOSE y \in LargeYs : \A z \in LargeYs : y <= z
        bottom == CHOOSE y \in LargeYs : \A z \in LargeYs : z <= y
    IN IF k = 1 THEN top ELSE bottom

\* C14: with 0, 1 or 2 header regions the image run prints the warning and
\* ends without failure, with the groups of exactly the regions found, from
\* the top: the first as ANALISIS - HOY and ANALISIS - HASTA, the second as
\* PRODUCTO TERMINADO (AZUCAR); with no region the output is empty and the
\* exit status is still 0.
C14_FewerRegionsWarnNoFailure ==
    (driver = "image" /\ drv_pc = "done" /\ image_ok /\ RegionCount < 3) =>
        /\ warned
        /\ exit_code = 0
        /\ RegionCount = 0 => results = <<>>
        /\ RegionCount = 1 =>
                results = <<Group(nameHOY, RegionParse[page][RegionY(1)].analisis.hoy),
                            Group(nameHASTA, RegionParse[page][RegionY(1)].analisis.hasta)>>
        /\ RegionCount = 2 =>
                results = <<Group(nameHOY, RegionParse[page][RegionY(1)].analisis.hoy),
                            Group(nameHASTA, RegionParse[page][RegionY(1)].analisis.hasta),
                            Group(namePRODUCTO, RegionParse[page][RegionY(2)].producto)>>

\* The fixed order of the groups.
GroupOrder == <<nameHOY, nameHASTA, namePRODUCTO, nameCONTINUACION>>

\* The position of a name in the fixed order, 0 for any other name.
OrderOf(name) ==
    IF \E k \in 1..Len(GroupOrder) : GroupOrder[k] = name
    THEN CHOOSE k \in 1..Len(GroupOrder) : GroupOrder[k] = name
    ELSE 0

\* C15: the names of the groups emitted, by either program, follow the fixed
\* order ANALISIS - HOY, ANALISIS - HASTA, PRODUCTO TERMINADO (AZUCAR),
\* PRODUCTO TERMINADO (AZUCAR) - CONTINUACION, none repeated, whichever
\* sections are present; and ANALISIS - HOY is emitted exactly when
\* ANALISIS - HASTA is emitted right after it.
C15_GroupOrderFixed ==
    drv_pc \in {"done", "raised"} =>
        LET names == GroupNames(results)
        IN /\ \A i \in 1..Len(names) : OrderOf(names[i]) > 0
           /\ \A i, j \in 1..Len(names) :
                    i < j => OrderOf(names[i]) < OrderOf(names[j])
           /\ \A i \in 1..Len(names) :
                    /\ names[i] = nameHOY =>
                            (i < Len(names) /\ names[i + 1] = nameHASTA)
                    /\ names[i] = nameHASTA => (i > 1 /\ names[i - 1] = nameHOY)

\* An image with four header regions gave the four groups, and no fifth.
C15_Witness ==
    /\ driver = "image" /\ drv_pc = "done"
    /\ RegionCount = 4
    /\ GroupNames(results) = GroupOrder

\* The tokens of a line of the text, as the mappers walk them.
TokensOfLine(rawline) == SplitWs(CleanLine(rawline), <<>>)

\* The numeric pattern of the mapper of the recognised table.
MatchesNumeric(tok) ==
    IF table_kind = "CONTINUACION" THEN IsContinuacionNumericToken(tok)
    ELSE IsNumericToken(tok)

\* Number of tokens that precede the first numeric token.
LeadingCount(tokens) ==
    Cardinality({i \in 1..Len(tokens) : \A j \in 1..i : ~MatchesNumeric(tokens[j])})

\* The tokens that precede the first numeric token, joined by spaces.
LeadingText(tokens) == Join(SubSeq(tokens, 1, LeadingCount(tokens)), <<" ">>)

\* The numeric tokens in their order, written as the mapper stores them.
StoredNumerals(tokens) ==
    LET nums == SelectSeq(tokens, MatchesNumeric)
    IN [i \in 1..Len(nums) |->
            IF table_kind = "CONTINUACION"
            THEN ReplaceChar(RemoveChar(nums[i], ","), "-", ".")
            ELSE RemoveChar(nums[i], ",")]

\* The token sequences of the lines of the text whose tokens are walked: the
\* lines that are not blank, not skipped as headers, and of two tokens or more
\* (in the continuation text, the lines below the header of the section).
WalkedLines ==
    LET lines == TextLines(text)
        walked(n) ==
            LET line == CleanLine(lines[n])
            IN /\ line # <<>>
               /\ Len(SplitWs(line, <<>>)) >= 2
               /\ IF table_kind = "CONTINUACION"
                  THEN /\ ~IsContinuacionStart(line)
                       /\ \E m \in 1..(n - 1) : IsContinuacionStart(CleanLine(lines[m]))
                       /\ ~IsContinuacionHeader(line)
                  ELSE ~IsHeaderLine(line)
        idx == SelectSeq([n \in 1..Len(lines) |-> n], walked)
    IN [k \in 1..Len(idx) |-> TokensOfLine(lines[idx[k]])]

\* The walked lines with a token before the first numeric token (in the
\* continuation text, one that is not a separator run).
LinesWithLeadingText ==
    SelectSeq(WalkedLines,
              LAMBDA toks :
                /\ LeadingCount(toks) > 0
                /\ table_kind = "CONTINUACION" =>
                        \E i \in 1..Len(LeadingText(toks)) :
                            LeadingText(toks)[i] \notin TextSepChars)

\* C21: in the text token mappers every numeric token of a walked line enters
\* the value sequence in its order, DESCRIPCION is the space-joined tokens
\* that precede the first numeric token, a non-numeric token after the first
\* numeric token enters neither, and a line with no token before its first
\* numeric token emits no Indicator.
C21_TokenWalk ==
    (source = "image" /\ map_pc = "done") =>
        LET em == LinesWithLeadingText
        IN IF table_kind = "ANALISIS"
           THEN /\ hoy_indicators =
                    [k \in 1..Len(em) |->
                        text_hoy_indicator(LeadingText(em[k]), StoredNumerals(em[k]))]
                /\ hasta_indicators =
                    [k \in 1..Len(em) |->
                        text_hasta_indicator(LeadingText(em[k]), StoredNumerals(em[k]))]
           ELSE continuacion_indicators =
                    [k \in 1..Len(em) |->
                        text_continuacion_indicator(LeadingText(em[k]),
                                                    StoredNumerals(em[k]))]

\* An analysis text of two lines, the first with a word after its first
\* numeral and a numeral after that word: two pairs, the later numeral kept.
C21_Witness ==
    /\ source = "image" /\ table_kind = "ANALISIS" /\ map_pc = "done"
    /\ Len(WalkedLines) = 2
    /\ \E i \in 1..Len(WalkedLines[1]) :
            /\ i > LeadingCount(WalkedLines[1]) + 1
            /\ i < Len(WalkedLines[1])
            /\ ~MatchesNumeric(WalkedLines[1][i])
    /\ Len(hoy_indicators) = 2
    /\ hoy_indicators[1]["DESCRIPCION"] = PyStr(<<"J","u","g","o"," ","M","i","x","t","o">>)
    /\ hoy_indicators[1]["SAC"] = PyFloat(25, 1)

\* The number parser on position j of a value sequence, null beyond its end.
ParsedAt(values, j) == IF j < Len(values) THEN parse_number(values[j + 1]) ELSE PyNone

\* C22: in the text analysis mapper the value sequence v of a line fills
\* HOY = {DESCRIPCION, BRIX = v[0], SAC = v[1], PZA = v[2], COLOR = v[6],
\* PH = v[7], GR = v[8]} and HASTA = {DESCRIPCION, BRIX = v[3], SAC = v[4],
\* PZA = v[5]}, each through the number parser; a position at or beyond the
\* length of v gives null and the values beyond position 8 are ignored.
C22_AnalisisPositions ==
    (source = "image" /\ table_kind = "ANALISIS" /\ map_pc = "done") =>
        LET em == LinesWithLeadingText
        IN /\ Len(hoy_indicators) = Len(em)
           /\ Len(hasta_indicators) = Len(em)
           /\ \A k \in 1..Len(em) :
                LET v == StoredNumerals(em[k])
                    d == PyStr(LeadingText(em[k]))
                IN /\ hoy_indicators[k] =
                        ("DESCRIPCION" :> d) @@ ("BRIX" :> ParsedAt(v, 0))
                            @@ ("SAC" :> ParsedAt(v, 1)) @@ ("PZA" :> ParsedAt(v, 2))
                            @@ ("COLOR" :> ParsedAt(v, 6)) @@ ("PH" :> ParsedAt(v, 7))
                            @@ ("GR" :> ParsedAt(v, 8))
                   /\ hasta_indicators[k] =
                        ("DESCRIPCION" :> d) @@ ("BRIX" :> ParsedAt(v, 3))
                            @@ ("SAC" :> ParsedAt(v, 4)) @@ ("PZA" :> ParsedAt(v, 5))

\* A line of more than nine numerals followed by a line of two: the first
\* pair has every field filled, the second has nulls from position 2 on.
C22_Witness ==
    /\ source = "image" /\ table_kind = "ANALISIS" /\ map_pc = "done"
    /\ Len(LinesWithLeadingText) = 2
    /\ Len(StoredNumerals(LinesWithLeadingText[1])) > 9
    /\ Len(hoy_indicators) = 2
    /\ hoy_indicators[1]["COLOR"] = PyInt(7)
    /\ hoy_indicators[1]["GR"] = PyInt(9)
    /\ hasta_indicators[1]["BRIX"] = PyInt(1000)
    /\ hasta_indicators[2]["BRIX"] = PyNone
    /\ hoy_indicators[2]["PZA"] = PyNone

\* The header words of the claim: the section and column words and the two
\* column titles.
ClaimHeaderWords == HeaderWords \cup {kwHOY, kwHASTA}

\* The line holds one of the words, in any letter case.
HasWord(line, words) == \E w \in words : Contains(Upper(line), w)

\* A pair with the leading text of the line as DESCRIPCION was emitted.
PairEmittedFor(tokens) ==
    \E k \in 1..Len(hoy_indicators) :
        /\ hoy_indicators[k]["DESCRIPCION"] = PyStr(LeadingText(tokens))
        /\ k <= Len(hasta_indicators)
        /\ hasta_indicators[k]["DESCRIPCION"] = PyStr(LeadingText(tokens))

\* C23: in the text analysis mapper a line is skipped as a header only if it
\* holds a header word and no product name; a non-blank line with a product
\* name, a description token and a numeric token yields a pair, whatever
\* header words (ANALISIS, BRIX, SAC, PZA, COLOR, PH, HOY, HASTA) it holds.
C23_ProductNameKeepsLine ==
    (source = "image" /\ table_kind = "ANALISIS" /\ map_pc = "done") =>
        \A n \in 1..Len(TextLines(text)) :
            LET line == CleanLine(TextLines(text)[n])
                tokens == SplitWs(line, <<>>)
            IN /\ (/\ HasWord(line, ProductWords)
                   /\ LeadingCount(tokens) > 0
                   /\ LeadingCount(tokens) < Len(tokens))
                  => PairEmittedFor(tokens)
               /\ (/\ Len(tokens) >= 2
                   /\ LeadingCount(tokens) > 0
                   /\ ~PairEmittedFor(tokens))
                  => (HasWord(line, ClaimHeaderWords) /\ ~HasWord(line, ProductWords))

\* The header phrases and the values of the three rows read from the text.
ProductoRowsOfText ==
    ProductoTextLoop(TextLines(text),
                     [column_headers |-> <<>>, estandar_values |-> <<>>,
                      hoy_values |-> <<>>, hasta_values |-> <<>>])

\* The ESTANDAR value of the metric at position i: the i-th value of a row
\* that has a value for every metric, and, in a row without the two metrics
\* that do not apply to it, the i-th value for the first four metrics and the
\* value two places earlier for the metrics after the absent two.
EstandarOfMetric(rows, i) ==
    IF Len(rows.estandar_values) = Len(rows.hoy_values)
    THEN ListAt(rows.estandar_values, i)
    ELSE IF i < 4 THEN ListAt(rows.estandar_values, i)
    ELSE IF i <= 5 THEN PyNone
    ELSE ListAt(rows.estandar_values, i - 2)

\* C24: in the text finished-product mapper the Indicator of the header at
\* position i has the i-th HOY and HASTA values; its ESTANDAR/DIA is null at
\* positions 4 and 5, ESTANDAR value i at positions 0..3 and ESTANDAR value
\* i - 2 from position 6 on, null when out of range; and so no ESTANDAR value
\* goes to the header of another metric, whether the ESTANDAR row has as many
\* numeric values as the HOY row or two fewer.
C24_EstandarAligned ==
    (source = "image" /\ table_kind = "PRODUCTO_TERMINADO" /\ map_pc = "done") =>
        LET rows == ProductoRowsOfText
        IN /\ Len(producto_indicators) = Len(rows.column_headers)
           /\ \A i \in 0..(Len(rows.column_headers) - 1) :
                LET ind == producto_indicators[i + 1]
                IN /\ ind["HOY"] = ListAt(rows.hoy_values, i)
                   /\ ind["HASTA"] = ListAt(rows.hasta_values, i)
                   /\ ind["ESTANDAR/DIA"] =
                        (IF i < 4 THEN ListAt(rows.estandar_values, i)
                         ELSE IF i <= 5 THEN PyNone
                         ELSE ListAt(rows.estandar_values, i - 2))
                   /\ (Len(rows.estandar_values) \in
                            {Len(rows.hoy_values), Len(rows.hoy_values) - 2})
                      => ind["ESTANDAR/DIA"] \in {PyNone, EstandarOfMetric(rows, i)}

\* The lines of the text that the finished-product mapper takes as header
\* lines, cleaned.
HeaderLinesOfText ==
    LET lines == TextLines(text)
        isHeader(n) ==
            /\ Contains(Upper(lines[n]), kwTOTAL)
            /\ Contains(Upper(lines[n]), kwQQ)
            /\ Contains(Upper(lines[n]), kwCRUDA)
        idx == SelectSeq([n \in 1..Len(lines) |-> n], isHeader)
    IN [k \in 1..Len(idx) |-> CleanLine(lines[idx[k]])]

\* The DESCRIPCION texts of the finished-product Indicators, in order.
ProductoDescripciones ==
    [i \in 1..Len(producto_indicators) |-> producto_indicators[i]["DESCRIPCION"].s]

\* C26: for the header line TOTAL QQ CRUDA TOTAL QQ ESTAN. TOTAL QQ REFIN.
\* QQ PRODUCIDOS AZ. EQUIV. (MIEL) AZ. PMR TOTAL QUINTALES the header
\* reconstruction of the text finished-product mapper yields exactly the seven
\* metric names of the structured finished-product mapper, in its order.
C26_CanonicalHeaderPhrases ==
    (/\ source = "image" /\ table_kind = "PRODUCTO_TERMINADO" /\ map_pc = "done"
     /\ HeaderLinesOfText = <<txtCanonicalHeader>>) =>
        ProductoDescripciones = [i \in 1..Len(column_mapping) |-> column_mapping[i][1]]

\* The canonical header line below a title line and above complete rows gave
\* seven Indicators, QQ PRODUCIDOS the fourth and TOTAL QUINTALES the last.
C26_Witness ==
    /\ source = "image" /\ table_kind = "PRODUCTO_TERMINADO" /\ map_pc = "done"
    /\ HeaderLinesOfText = <<txtCanonicalHeader>>
    /\ Len(TextLines(text)) = 5
    /\ Len(producto_indicators) = 7
    /\ producto_indicators[4]["DESCRIPCION"] = PyStr(txtQQ_PRODUCIDOS)
    /\ producto_indicators[7]["DESCRIPCION"] = PyStr(txtTOTAL_QUINTALES)
    /\ producto_indicators[7]["HASTA"] = PyInt(37)

\* C30: the header splitting loop keeps the tokens: every phrase is
\* non-empty, and the phrases joined by spaces, in order, are the tokens of
\* the header parts joined by spaces; no token is lost, repeated or moved.
C30_HeaderTokensPreserved ==
    (/\ source = "image" /\ table_kind = "PRODUCTO_TERMINADO" /\ map_pc = "done"
     /\ Len(HeaderLinesOfText) = 1) =>
        /\ \A i \in 1..Len(ProductoDescripciones) : ProductoDescripciones[i] # <<>>
        /\ Join(ProductoDescripciones, <<" ">>) =
                Join(SplitWs(ReplaceChar(HeaderLinesOfText[1], "[", " "), <<>>), <<" ">>)
        /\ Len(ProductoDescripciones) <=
                Len(SplitWs(ReplaceChar(HeaderLinesOfText[1], "[", " "), <<>>))

\* A header part x TOTAL x AZ. was split into the phrases x, TOTAL x and AZ.
C30_Witness ==
    /\ source = "image" /\ table_kind = "PRODUCTO_TERMINADO" /\ map_pc = "done"
    /\ Len(HeaderLinesOfText) = 1
    /\ ProductoDescripciones =
            <<txtTOTAL_QQ_CRUDA, <<"x">>, <<"T","O","T","A","L"," ","x">>, kwAZ>>

\* C25: for a header region inside the image the box cut by
\* extract_table_area is clipped to the image: 0 <= x, 0 <= y,
\* x + w <= width, y + h <= height, w > 0 and h > 0; it starts 5 pixels above
\* the header and is at most expansion + 50 pixels high.
C25_CropInsideImage ==
    (driver = "crop" /\ drv_pc = "done") =>
        /\ 0 <= table_img.x
        /\ 0 <= table_img.y
        /\ table_img.x + table_img.w <= image_shape.width
        /\ table_img.y + table_img.h <= image_shape.height
        /\ table_img.w > 0
        /\ table_img.h > 0
        /\ table_img.y <= header_region.y
        /\ table_img.y + table_img.h <= header_region.y - 5 + expansion + 50

\* C29: the scan of the structured finished-product mapper stops at the first
\* row whose leading cell is HASTA below an HOY row; the rows used are that
\* row, the last ESTANDAR row above it and the last HOY row above it, so in a
\* non-empty result both indices are smaller than the index of the HASTA row
\* and no row below it is used; a sheet whose ESTANDAR rows are all below the
\* accepted HASTA row gives the empty result.
C29_ScanStopsAtHasta ==
    (source = "excel" /\ table_kind = "PRODUCTO_TERMINADO" /\ map_pc = "done") =>
        /\ producto_indicators # <<>> =>
            /\ ~NoHastaAfterHoy
            /\ \E e, h \in 1..(HastaRow - 1) :
                /\ Contains(FirstVal(df[e]), kwESTANDAR)
                /\ \A q \in (e + 1)..(HastaRow - 1) : ~Contains(FirstVal(df[q]), kwESTANDAR)
                /\ FirstVal(df[h]) = kwHOY
                /\ \A q \in (h + 1)..(HastaRow - 1) : FirstVal(df[q]) # kwHOY
                /\ \A i \in 1..Len(producto_indicators) :
                    /\ producto_indicators[i]["ESTANDAR/DIA"] =
                            NormCell(df[e], column_mapping[i][2])
                    /\ producto_indicators[i]["HOY"] =
                            NormCell(df[h], column_mapping[i][2])
                    /\ producto_indicators[i]["HASTA"] =
                            NormCell(df[HastaRow], column_mapping[i][2])
        /\ (/\ ~NoHastaAfterHoy
            /\ \A r \in 1..HastaRow : ~Contains(FirstVal(df[r]), kwESTANDAR))
           => producto_indicators = <<>>

\* A sheet with an ESTANDAR row and an HOY row below the accepted HASTA row
\* gave Indicators read from the rows above it, whose cells differ from the
\* cells of the later rows.
C29_Witness ==
    /\ source = "excel" /\ table_kind = "PRODUCTO_TERMINADO" /\ map_pc = "done"
    /\ producto_indicators # <<>>
    /\ HastaRow = 3
    /\ Contains(FirstVal(df[4]), kwESTANDAR)
    /\ FirstVal(df[5]) = kwHOY
    /\ \E i \in 1..Len(producto_indicators) :
        /\ producto_indicators[i]["ESTANDAR/DIA"] # NormCell(df[4], column_mapping[i][2])
        /\ producto_indicators[i]["HOY"] # NormCell(df[5], column_mapping[i][2])

-----------------------------------------------------------------------------
(* Properties of the keyword-driven segmenter.                              *)

\* C27: once the keyword-driven segmenter of extract_pdf_to_excel.py has run,
\* the rows of each section are one contiguous run of the table, the ANALISIS
\* run first, the PRODUCTO_TERMINADO run second and the CONTINUACION run last,
\* and every row of the table is in one of the three: the three lists put end
\* to end are the table.
C27_KeywordSectionsPartitionTable ==
    seg_pc = "done"
        => /\ Len(analisis_data) + Len(producto_data) + Len(continuacion_data)
                = Len(main_table)
           /\ \A i \in 1..Len(main_table) :
                main_table[i] =
                    IF i <= Len(analisis_data) THEN analisis_data[i]
                    ELSE IF i <= Len(analisis_data) + Len(producto_data)
                    THEN producto_data[i - Len(analisis_data)]
                    ELSE continuacion_data[i - Len(analisis_data)
                                             - Len(producto_data)]

\* Each marker row is found: there is a row of its kind at an index other
\* than 0.
AllMarkersFound ==
    /\ \E i \in 2..Len(df) : IsEstandarRow(df[i])
    /\ \E i \in 2..Len(df) : IsHoyRow(df[i])
    /\ \E i \in 2..Len(df) : IsHastaRow(df[i])

\* C28: parse_producto_from_df of extract_pdf_to_excel.py never raises, and
\* whenever the ESTANDAR, HOY and HASTA rows are not all found (a row at index
\* 0 counts as not found) its list of Indicators is empty, so no Indicator has
\* one of the three value fields filled and another forced to null.
C28_EmptyUnlessAllMarkersFound ==
    (source = "pdf_excel" /\ map_pc # "ready") =>
        /\ map_pc = "done"
        /\ ~AllMarkersFound =>
            /\ producto_indicators = <<>>
            /\ \A k \in 1..Len(producto_indicators) :
                \A key \in {"ESTANDAR/DIA", "HOY", "HASTA"} :
                    producto_indicators[k][key] = PyNone

====
